---- MODULE Spec2Model ----
(***************************************************************************)
(* A model of the AIX metadata collector: one command-line invocation      *)
(* selects one collector (process, file or port), runs collect on the      *)
(* identifier and returns a MetadataResult.                                *)
(*                                                                         *)
(* Text is modelled as a sequence of one-character strings, so that        *)
(* strtol, rfind, getline and the whitespace tokenizer are computed as the *)
(* code computes them.  Fields of a MetadataResult are TLA+ strings,       *)
(* obtained from character sequences by Str.                               *)
(***************************************************************************)
EXTENDS Integers, Sequences, FiniteSets, TLC

VARIABLES
    pc,            \* position of the invocation: "start", a pass of collect, "done"
    mode,          \* CommandLineArgs::mode: "port", "process" or "file"
    identifier,    \* CommandLineArgs::identifier, a character sequence
    m_protocol,    \* PortCollector::m_protocol: "TCP", "UDP" or "Both"
    longBits,      \* width of the C type long in the build: 32 or 64
    port,          \* the uint16_t that parsePort stored (0 before it did)
    pid,           \* the pid_t that parsePid stored (0 before it did)
    connections,   \* std::vector<ConnectionInfo> of PortCollector::collect
    output,        \* std::string output of collectTcpConnections/collectUdpConnections,
                   \* as the last executeCommand left it
    calls,         \* the OS calls and subprocesses of this invocation, in order
    rowsPrinted,   \* how many rows the enumeration commands have printed so far
    lstatBuf,      \* struct stat64 lstatBuf of FileCollector::collectStats
    statBuf,       \* struct stat64 statBuf of FileCollector::collectStats
    pipe,          \* the FILE* pipes that popen opened and pclose has not closed
    lookups,       \* what getprocs64 returned at each call of this invocation, in order
    argv,          \* argv[1..argc-1] of main, each a string (<<>> when collect is
                   \* studied without main)
    json,          \* std::string json of main, as JsonFormatter::format returned it
    exitCode,      \* the value main returned (-1 while it has not)
    indexFile,     \* std::ifstream indexFile of collectWparInfo: <<>> while it is not
                   \* open, else <<the content of /etc/corrals/index>>
    result         \* the MetadataResult that collect returned (when pc = "done")

vars == <<pc, mode, identifier, m_protocol, longBits, port, pid, connections, output,
          calls, rowsPrinted, lstatBuf, statBuf, pipe, lookups, argv, json, exitCode,
          indexFile, result>>

(***************************************************************************)
(* Bounds of the model.                                                    *)
(***************************************************************************)
\* longest generated identifier (the curated identifiers are longer)
MaxIdLen == 3

(***************************************************************************)
(* Character sequences.                                                    *)
(***************************************************************************)
RECURSIVE Str(_)
Str(cs) == IF cs = <<>> THEN "" ELSE Head(cs) \o Str(Tail(cs))

SeqsUpTo(S, n) == UNION {[1..k -> S] : k \in 0..n}

DigitChars == <<"0", "1", "2", "3", "4", "5", "6", "7", "8", "9">>

IsDigit(c) == \E i \in 1..10 : DigitChars[i] = c

DigitVal(c) == (CHOOSE i \in 1..10 : DigitChars[i] = c) - 1

\* isspace in the C locale, the characters strtol skips
IsSpace(c) == c \in {" ", "\t", "\n", "\r", "\f"}

RECURSIVE SpaceRun(_)
SpaceRun(cs) == IF cs # <<>> /\ IsSpace(Head(cs)) THEN 1 + SpaceRun(Tail(cs)) ELSE 0

RECURSIVE DigitRun(_)
DigitRun(cs) == IF cs # <<>> /\ IsDigit(Head(cs)) THEN 1 + DigitRun(Tail(cs)) ELSE 0

Drop(cs, n) == SubSeq(cs, n + 1, Len(cs))

(***************************************************************************)
(* Values of type long.  A long is [neg, mag]: its sign and its magnitude  *)
(* as a sequence of decimal digits without leading zeros (zero is <<>>),   *)
(* so that values beyond the range of the model checker's integers are exact.*)
(***************************************************************************)
RECURSIVE StripZeros(_)
StripZeros(ds) == IF ds # <<>> /\ Head(ds) = 0 THEN StripZeros(Tail(ds)) ELSE ds

RECURSIVE NatDigits(_)
NatDigits(n) == IF n = 0 THEN <<>> ELSE Append(NatDigits(n \div 10), n % 10)

RECURSIVE MagToNat(_)
MagToNat(ds) == IF ds = <<>> THEN 0 ELSE MagToNat(SubSeq(ds, 1, Len(ds) - 1)) * 10 + ds[Len(ds)]

MagLess(a, b) ==
    \/ Len(a) < Len(b)
    \/ /\ Len(a) = Len(b)
       /\ \E i \in 1..Len(a) : a[i] < b[i] /\ \A j \in 1..(i - 1) : a[j] = b[j]

INT32_MAX == 2147483647

UINT16_MAX == 65535

\* LONG_MAX of the build, as a magnitude
LongMaxMag(bits) ==
    IF bits = 64
    THEN <<9, 2, 2, 3, 3, 7, 2, 0, 3, 6, 8, 5, 4, 7, 7, 5, 8, 0, 7>>
    ELSE <<2, 1, 4, 7, 4, 8, 3, 6, 4, 7>>

\* -LONG_MIN of the build, as a magnitude
LongMinMag(bits) ==
    IF bits = 64
    THEN <<9, 2, 2, 3, 3, 7, 2, 0, 3, 6, 8, 5, 4, 7, 7, 5, 8, 0, 8>>
    ELSE <<2, 1, 4, 7, 4, 8, 3, 6, 4, 8>>

LongLeqZero(v) == v.neg \/ v.mag = <<>>

LongGreater(v, n) == ~v.neg /\ MagLess(NatDigits(n), v.mag)

LongEqualsNat(v, n) == ~v.neg /\ v.mag = NatDigits(n)

(***************************************************************************)
(* strtol(nptr, &endPtr, 10): skips white space, takes an optional sign    *)
(* and the longest run of digits; the value saturates at LONG_MAX and      *)
(* LONG_MIN.  end is the number of characters up to endPtr (0 when no      *)
(* conversion was performed, endPtr = nptr).                               *)
(***************************************************************************)
\* the value of the digits mag under sign neg, saturated at the limits of long
Saturated(mag, neg, limit) ==
    LET sat == IF MagLess(limit, mag) THEN limit ELSE mag
    IN  [neg |-> neg /\ sat # <<>>, mag |-> sat]

\* the subject sequence body, after skipped characters of white space and sign
StrtolDigits(body, neg, skipped, bits) ==
    LET n == DigitRun(body)
    IN  IF n = 0
        THEN [value |-> [neg |-> FALSE, mag |-> <<>>], end |-> 0]
        ELSE [value |-> Saturated(StripZeros([i \in 1..n |-> DigitVal(body[i])]), neg,
                                  IF neg THEN LongMinMag(bits) ELSE LongMaxMag(bits)),
              end   |-> skipped + n]

\* the optional sign at the head of rest, after ws characters of white space
StrtolSign(rest, ws, bits) ==
    IF rest # <<>> /\ Head(rest) \in {"+", "-"}
    THEN StrtolDigits(Tail(rest), Head(rest) = "-", ws + 1, bits)
    ELSE StrtolDigits(rest, FALSE, ws, bits)

Strtol(cs, bits) == StrtolSign(Drop(cs, SpaceRun(cs)), SpaceRun(cs), bits)

(***************************************************************************)
(* MetadataResult and CollectorBase::createErrorResult.                    *)
(***************************************************************************)
\* MetadataResult(): every string empty, no attribute, success false
MetadataResult == [type |-> "", identifier |-> "", attributes |-> <<>>,
                   success |-> FALSE, errorMessage |-> ""]

\* MetadataAttribute(name, value): one value
Attr(name, value) == [name |-> name, values |-> <<value>>]

\* MetadataAttribute(name, values): the list as given
AttrList(name, values) == [name |-> name, values |-> values]

\* createErrorResult without the assignment of errorMessage
createErrorResultNoMessage(id, errorMsg) ==
    [MetadataResult EXCEPT !.success = FALSE, !.identifier = Str(id)]

createErrorResult(id, errorMsg) ==
    [MetadataResult EXCEPT !.success = FALSE,
                           !.identifier = Str(id),
                           !.errorMessage = errorMsg]

(***************************************************************************)
(* PortCollector::parsePort and ProcessCollector::parsePid.                *)
(***************************************************************************)
parsePortNoUpperBound(id, bits) ==
    LET r == Strtol(id, bits)
    IN  IF r.end = 0 \/ r.end < Len(id) THEN [ok |-> FALSE, port |-> 0]
        ELSE IF LongLeqZero(r.value) \/ LongGreater(r.value, INT32_MAX)
             THEN [ok |-> FALSE, port |-> 0]
             ELSE [ok |-> TRUE, port |-> MagToNat(r.value.mag) % (UINT16_MAX + 1)]

parsePort(id, bits) ==
    LET r == Strtol(id, bits)
    IN  IF r.end = 0 \/ r.end < Len(id) THEN [ok |-> FALSE, port |-> 0]
        ELSE IF LongLeqZero(r.value) \/ LongGreater(r.value, UINT16_MAX)
             THEN [ok |-> FALSE, port |-> 0]
             ELSE [ok |-> TRUE, port |-> MagToNat(r.value.mag)]

\* parsePid with the range check value < 0 in place of value <= 0
parsePidAcceptsZero(id, bits) ==
    LET r == Strtol(id, bits)
    IN  IF r.end = 0 \/ r.end < Len(id) THEN [ok |-> FALSE, pid |-> 0]
        ELSE IF r.value.neg \/ LongGreater(r.value, INT32_MAX)
             THEN [ok |-> FALSE, pid |-> 0]
             ELSE [ok |-> TRUE, pid |-> MagToNat(r.value.mag)]

parsePid(id, bits) ==
    LET r == Strtol(id, bits)
    IN  IF r.end = 0 \/ r.end < Len(id) THEN [ok |-> FALSE, pid |-> 0]
        ELSE IF LongLeqZero(r.value) \/ LongGreater(r.value, INT32_MAX)
             THEN [ok |-> FALSE, pid |-> 0]
             ELSE [ok |-> TRUE, pid |-> MagToNat(r.value.mag)]

(***************************************************************************)
(* Number formatting: operator<< of an integer into an ostringstream.      *)
(***************************************************************************)
DecChars(n) ==
    IF n = 0 THEN <<"0">>
    ELSE LET ds == NatDigits(n) IN [i \in 1..Len(ds) |-> DigitChars[ds[i] + 1]]

NumStr(n) == IF n < 0 THEN "-" \o Str(DecChars(0 - n)) ELSE Str(DecChars(n))

(***************************************************************************)
(* static_cast<pid_t>(long) and atoi: the low 32 bits as a signed int.  The *)
(* magnitude is reduced modulo 2^32 in two 16-bit limbs.                   *)
(***************************************************************************)
RECURSIVE MagLimbs(_)
MagLimbs(ds) ==
    IF ds = <<>> THEN [hi |-> 0, lo |-> 0]
    ELSE LET p == MagLimbs(SubSeq(ds, 1, Len(ds) - 1))
             l == p.lo * 10 + ds[Len(ds)]
         IN  [lo |-> l % 65536, hi |-> (p.hi * 10 + (l \div 65536)) % 65536]

CastInt(v) ==
    LET m  == MagLimbs(v.mag)
        lo == IF v.neg THEN (65536 - m.lo) % 65536 ELSE m.lo
        hi == IF v.neg THEN (65535 - m.hi + (IF m.lo = 0 THEN 1 ELSE 0)) % 65536 ELSE m.hi
    IN  IF hi < 32768 THEN hi * 65536 + lo ELSE (hi - 65536) * 65536 + lo

(***************************************************************************)
(* Reading text: std::getline over the output, operator>> over a line.     *)
(***************************************************************************)
RECURSIVE LineRun(_)
LineRun(cs) == IF cs # <<>> /\ Head(cs) # "\n" THEN 1 + LineRun(Tail(cs)) ELSE 0

RECURSIVE SplitLines(_)
SplitLines(cs) ==
    IF cs = <<>> THEN <<>>
    ELSE LET n == LineRun(cs)
         IN  IF n = Len(cs) THEN <<cs>>
             ELSE <<SubSeq(cs, 1, n)>> \o SplitLines(Drop(cs, n + 1))

RECURSIVE WordRun(_)
WordRun(cs) == IF cs # <<>> /\ ~IsSpace(Head(cs)) THEN 1 + WordRun(Tail(cs)) ELSE 0

RECURSIVE Tokenize(_)
Tokenize(cs) ==
    LET rest == Drop(cs, SpaceRun(cs))
        n    == WordRun(rest)
    IN  IF rest = <<>> THEN <<>>
        ELSE <<SubSeq(rest, 1, n)>> \o Tokenize(Drop(rest, n))

\* std::string::rfind(c): the last position of c, 0 for npos (positions from 1)
RFind(cs, c) ==
    IF \E i \in 1..Len(cs) : cs[i] = c
    THEN CHOOSE i \in 1..Len(cs) : cs[i] = c /\ \A j \in (i + 1)..Len(cs) : cs[j] # c
    ELSE 0

HexChars == {"0", "1", "2", "3", "4", "5", "6", "7", "8", "9",
             "a", "b", "c", "d", "e", "f", "A", "B", "C", "D", "E", "F"}

(***************************************************************************)
(* PortCollector::executeCommand.  o is what the subprocess does:          *)
(* o.popen (the pipe was created), o.out (its standard output) and         *)
(* o.status (what pclose returns).  prev is the caller's output string,    *)
(* left as it was when popen fails.                                        *)
(***************************************************************************)
executeCommand(o, prev) ==
    IF ~o.popen THEN [ok |-> FALSE, output |-> prev]
    ELSE [ok |-> (o.status = 0 \/ o.out # <<>>), output |-> o.out]

\* the record of one executeCommand in calls: the command and what it returned
ExecCalls(cmd, o) == <<[call |-> "popen", arg |-> cmd, ok |-> executeCommand(o, <<>>).ok]>>

(***************************************************************************)
(* PortCollector::findProcessForPort, the _AIX branch.                     *)
(***************************************************************************)
LsofCmd(p, protocol) ==
    "lsof -i :" \o NumStr(p) \o " -n -P 2>/dev/null | grep -i " \o protocol

\* FirstLsofRow that does not skip the header row
RECURSIVE FirstLsofRowKeepsHeader(_)
FirstLsofRowKeepsHeader(lines) ==
    IF lines = <<>> THEN <<>>
    ELSE IF Len(Tokenize(Head(lines))) >= 3 THEN Tokenize(Head(lines))
    ELSE FirstLsofRowKeepsHeader(Tail(lines))

\* the first row of the lsof output that is not skipped and has three tokens
RECURSIVE FirstLsofRow(_)
FirstLsofRow(lines) ==
    IF lines = <<>> THEN <<>>
    ELSE LET tokens == Tokenize(Head(lines))
         IN  IF Head(lines) = <<>> THEN FirstLsofRow(Tail(lines))
             ELSE IF Len(tokens) < 2 \/ Str(tokens[1]) = "COMMAND"
                  THEN FirstLsofRow(Tail(lines))
             ELSE IF Len(tokens) >= 3 THEN tokens
             ELSE FirstLsofRow(Tail(lines))

findProcessForPort(info, o, bits) ==
    LET r == executeCommand(o, <<>>)
    IN  IF ~r.ok \/ r.output = <<>> THEN info
        ELSE LET tokens == FirstLsofRow(SplitLines(r.output))
             IN  IF tokens = <<>> THEN info
                 ELSE LET n == Strtol(tokens[2], bits)
                      IN  [info EXCEPT
                             !.processName = Str(tokens[1]),
                             !.pid = IF n.end < Len(tokens[2]) THEN @ ELSE CastInt(n.value),
                             !.user = Str(tokens[3])]

(***************************************************************************)
(* PortCollector::parseNetstatOutput, one line: whether the line is kept,  *)
(* whether it carried a socket address, and the ConnectionInfo built from  *)
(* it before any process lookup.                                           *)
(***************************************************************************)
ConnectionInfo == [protocol |-> "", localAddress |-> "", localPort |-> "",
                   remoteAddress |-> "", remotePort |-> "", state |-> "",
                   pid |-> 0, processName |-> "", user |-> ""]

SkipLine == [kept |-> FALSE, socketAddr |-> <<>>, info |-> ConnectionInfo]

\* PortEquals without the test of *endPtr: a port with trailing characters matches
PortEqualsPrefix(portStr, p, bits) == LongEqualsNat(Strtol(portStr, bits).value, p)

\* strtol of a port token consumed all of it and gave the target port
PortEquals(portStr, p, bits) ==
    LET r == Strtol(portStr, bits)
    IN  ~(r.end < Len(portStr) \/ ~LongEqualsNat(r.value, p))

\* lines 238-260: the local port or, failing that, the foreign port is the target
PortMatches(localPortStr, foreignAddr, p, bits) ==
    IF ~PortEquals(localPortStr, p, bits)
    THEN IF RFind(foreignAddr, ".") # 0
         THEN PortEquals(Drop(foreignAddr, RFind(foreignAddr, ".")), p, bits)
         ELSE FALSE
    ELSE TRUE

\* LineInfo that leaves the remote port empty when the foreign address has no dot
LineInfoNoStar(protocol, localAddr, lastDot, foreignAddr, foreignLastDot, state) ==
    [ConnectionInfo EXCEPT
        !.protocol = protocol,
        !.localAddress = Str(SubSeq(localAddr, 1, lastDot - 1)),
        !.localPort = Str(Drop(localAddr, lastDot)),
        !.state = Str(state),
        !.pid = 0,
        !.remoteAddress = IF foreignLastDot # 0
                          THEN Str(SubSeq(foreignAddr, 1, foreignLastDot - 1))
                          ELSE Str(foreignAddr),
        !.remotePort = IF foreignLastDot # 0
                       THEN Str(Drop(foreignAddr, foreignLastDot))
                       ELSE ""]

\* lines 262-277: the ConnectionInfo of a line that is kept
LineInfo(protocol, localAddr, lastDot, foreignAddr, foreignLastDot, state) ==
    [ConnectionInfo EXCEPT
        !.protocol = protocol,
        !.localAddress = Str(SubSeq(localAddr, 1, lastDot - 1)),
        !.localPort = Str(Drop(localAddr, lastDot)),
        !.state = Str(state),
        !.pid = 0,
        !.remoteAddress = IF foreignLastDot # 0
                          THEN Str(SubSeq(foreignAddr, 1, foreignLastDot - 1))
                          ELSE Str(foreignAddr),
        !.remotePort = IF foreignLastDot # 0
                       THEN Str(Drop(foreignAddr, foreignLastDot))
                       ELSE "*"]

\* lines 238-277: the address fields of a line with enough tokens
ParseFields(socketAddr, localAddr, foreignAddr, state, lastDot, p, protocol, bits) ==
    IF lastDot = 0 THEN SkipLine
    ELSE IF ~PortMatches(Drop(localAddr, lastDot), foreignAddr, p, bits) THEN SkipLine
    ELSE [kept |-> TRUE,
          socketAddr |-> socketAddr,
          info |-> LineInfo(protocol, localAddr, lastDot, foreignAddr,
                            RFind(foreignAddr, "."), state)]

\* ParseTokens that reads a row too short for its socket address as a row without one
ParseTokensAsShort(tokens, offset, p, protocol, bits) ==
    IF Len(tokens) < offset + 6
    THEN ParseFields(<<>>, tokens[4], tokens[5], tokens[6], RFind(tokens[4], "."),
                     p, protocol, bits)
    ELSE ParseFields(IF offset = 1 THEN tokens[1] ELSE <<>>,
                     tokens[offset + 4], tokens[offset + 5], tokens[offset + 6],
                     RFind(tokens[offset + 4], "."), p, protocol, bits)

\* lines 232-236: the tokens of a line; offset is 1 after a socket address
ParseTokens(tokens, offset, p, protocol, bits) ==
    IF Len(tokens) < offset + 6 THEN SkipLine
    ELSE ParseFields(IF offset = 1 THEN tokens[1] ELSE <<>>,
                     tokens[offset + 4], tokens[offset + 5], tokens[offset + 6],
                     RFind(tokens[offset + 4], "."), p, protocol, bits)

\* IsSocketAddr that takes ten characters for enough
IsSocketAddrTenChars(token) ==
    Len(token) >= 10 /\ \A i \in 1..Len(token) : token[i] \in HexChars

\* line 227: the first token looks like a socket address
IsSocketAddr(token) ==
    Len(token) > 10 /\ \A i \in 1..Len(token) : token[i] \in HexChars

ParseLine(line, p, protocol, bits) ==
    LET tokens == Tokenize(line)
    IN  IF line = <<>> THEN SkipLine
        ELSE IF Len(tokens) < 6 THEN SkipLine
        ELSE ParseTokens(tokens, IF IsSocketAddr(tokens[1]) THEN 1 ELSE 0, p, protocol, bits)

(***************************************************************************)
(* PortCollector::parseNetstatOutput over the whole output.  oracle is the *)
(* sequence of outcomes of the lsof subprocesses the parse starts, in      *)
(* order.  The value is the grown connections vector, the calls made and   *)
(* the number of lookups started.                                          *)
(***************************************************************************)
\* StoreLine that looks the process up for every kept line
StoreLineAlways(acc, l, o, p, protocol, bits) ==
    IF ~l.kept THEN acc
    ELSE [connections |-> Append(acc.connections, findProcessForPort(l.info, o, bits)),
          calls |-> acc.calls \o ExecCalls(LsofCmd(p, protocol), o),
          lookups |-> acc.lookups + 1]

\* lines 279-284: the connection of parsed line l is stored, after the process lookup
\* when the line carried a socket address; o is the outcome of that lookup
StoreLine(acc, l, o, p, protocol, bits) ==
    IF ~l.kept THEN acc
    ELSE IF l.socketAddr # <<>>
    THEN [connections |-> Append(acc.connections, findProcessForPort(l.info, o, bits)),
          calls |-> acc.calls \o ExecCalls(LsofCmd(p, protocol), o),
          lookups |-> acc.lookups + 1]
    ELSE [acc EXCEPT !.connections = Append(@, l.info)]

RECURSIVE ParseLines(_, _, _, _, _, _)
ParseLines(lines, p, protocol, acc, oracle, bits) ==
    IF lines = <<>> THEN acc
    ELSE ParseLines(Tail(lines), p, protocol,
                    StoreLine(acc, ParseLine(Head(lines), p, protocol, bits),
                              IF acc.lookups < Len(oracle) THEN oracle[acc.lookups + 1]
                              ELSE [popen |-> FALSE, status |-> 0, out |-> <<>>],
                              p, protocol, bits),
                    oracle, bits)

parseNetstatOutput(out, p, protocol, conns, oracle, bits) ==
    ParseLines(SplitLines(out), p, protocol,
               [connections |-> conns, calls |-> <<>>, lookups |-> 0], oracle, bits)

\* the number of lsof subprocesses that parsing output starts
NumLookups(out, p, bits) ==
    LET ls == SplitLines(out)
    IN  Cardinality({i \in 1..Len(ls) :
            LET l == ParseLine(ls[i], p, "", bits) IN l.kept /\ l.socketAddr # <<>>})

(***************************************************************************)
(* PortCollector::collect, lines 54-96: the Result from the connections.   *)
(***************************************************************************)
\* ConnectionAttrs without the test conn.pid > 0
ConnectionAttrsAlwaysPid(conn, connIndex) ==
    LET pfx == "connection_" \o NumStr(connIndex) \o "_"
    IN  <<Attr(pfx \o "protocol", conn.protocol),
          Attr(pfx \o "local_address", conn.localAddress),
          Attr(pfx \o "local_port", conn.localPort),
          Attr(pfx \o "remote_address", conn.remoteAddress),
          Attr(pfx \o "remote_port", conn.remotePort),
          Attr(pfx \o "state", conn.state),
          Attr(pfx \o "pid", NumStr(conn.pid))>>
        \o (IF conn.processName # "" THEN <<Attr(pfx \o "process", conn.processName)>> ELSE <<>>)
        \o (IF conn.user # "" THEN <<Attr(pfx \o "user", conn.user)>> ELSE <<>>)

ConnectionAttrs(conn, connIndex) ==
    LET pfx == "connection_" \o NumStr(connIndex) \o "_"
    IN  <<Attr(pfx \o "protocol", conn.protocol),
          Attr(pfx \o "local_address", conn.localAddress),
          Attr(pfx \o "local_port", conn.localPort),
          Attr(pfx \o "remote_address", conn.remoteAddress),
          Attr(pfx \o "remote_port", conn.remotePort),
          Attr(pfx \o "state", conn.state)>>
        \o (IF conn.pid > 0 THEN <<Attr(pfx \o "pid", NumStr(conn.pid))>> ELSE <<>>)
        \o (IF conn.processName # "" THEN <<Attr(pfx \o "process", conn.processName)>> ELSE <<>>)
        \o (IF conn.user # "" THEN <<Attr(pfx \o "user", conn.user)>> ELSE <<>>)

RECURSIVE AllConnectionAttrs(_, _)
AllConnectionAttrs(conns, connIndex) ==
    IF conns = <<>> THEN <<>>
    ELSE ConnectionAttrs(Head(conns), connIndex) \o AllConnectionAttrs(Tail(conns), connIndex + 1)

\* PortResult without the branch for an empty vector
PortResultCounted(res, id, conns) ==
    [res EXCEPT !.success = TRUE,
                !.attributes = @ \o <<Attr("port", Str(id)),
                                      Attr("num_connections", NumStr(Len(conns)))>>
                                 \o AllConnectionAttrs(conns, 0)]

PortResult(res, id, conns) ==
    IF conns = <<>>
    THEN [res EXCEPT !.success = TRUE,
                     !.attributes = @ \o <<Attr("status", "no_connections_found"),
                                           Attr("port", Str(id))>>]
    ELSE [res EXCEPT !.success = TRUE,
                     !.attributes = @ \o <<Attr("port", Str(id)),
                                           Attr("num_connections", NumStr(Len(conns)))>>
                                      \o AllConnectionAttrs(conns, 0)]

(***************************************************************************)
(* The commands of collectTcpConnections and collectUdpConnections; t is   *)
(* the transport, "tcp" or "udp".                                          *)
(***************************************************************************)
Transports == {"tcp", "udp"}

PrimaryCmd(t) == "netstat -Aan -f inet 2>/dev/null | grep " \o t

AlternateCmd(t) == "netstat -an -f inet 2>/dev/null | grep " \o t

Inet6Cmd(t) == "netstat -Aan -f inet6 2>/dev/null | grep " \o t

\* Requested without the filter: every transport is collected
RequestedIgnoringFilter(t, proto) == TRUE

\* collect, lines 45-52: whether transport t is requested by the filter
Requested(t, proto) ==
    IF t = "tcp" THEN proto \in {"TCP", "Both"} ELSE proto \in {"UDP", "Both"}

\* collect, lines 45-59: where collect goes once transport t has returned
AfterTransport(t, proto) ==
    IF t = "tcp" /\ Requested("udp", proto) THEN "udp4" ELSE "done"

FirstTransport(proto) == IF Requested("tcp", proto) THEN "tcp4" ELSE "udp4"

(***************************************************************************)
(* The environment of a port query: what the netstat and lsof              *)
(* subprocesses can print.                                                 *)
(***************************************************************************)
\* most rows that the enumeration commands of one invocation print in total
MaxRows == 2

RECURSIVE JoinWith(_, _)
JoinWith(toks, sep) ==
    IF toks = <<>> THEN <<>>
    ELSE IF Len(toks) = 1 THEN toks[1]
    ELSE toks[1] \o <<sep>> \o JoinWith(Tail(toks), sep)

\* every line followed by a newline, as a command prints them
RECURSIVE Unlines(_)
Unlines(ls) == IF ls = <<>> THEN <<>> ELSE Head(ls) \o <<"\n">> \o Unlines(Tail(ls))

SocketHandle ==
    <<"f", "1", "0", "0", "0", "e", "0", "0", "0", "1", "8", "9", "1", "3", "9", "8">>

TransportChars(t) == IF t = "tcp" THEN <<"t", "c", "p">> ELSE <<"u", "d", "p">>

OtherPort(p) == IF p = UINT16_MAX THEN p - 1 ELSE p + 1

\* a netstat -Aan row of transport t, family digit fam, listening on port q
ListenLine(t, fam, q) ==
    JoinWith(<<SocketHandle, TransportChars(t) \o <<fam>>, <<"0">>, <<"0">>,
               <<"*", ".">> \o DecChars(q), <<"*", ".", "*">>,
               <<"L", "I", "S", "T", "E", "N">>>>, " ")

\* what a subprocess can do: no pipe, or an output and an exit status
ExecOutcomes(outs) ==
    {[popen |-> FALSE, status |-> 1, out |-> <<>>]}
    \cup {[popen |-> TRUE, status |-> st, out |-> o] : st \in {0, 1}, o \in outs}

\* a netstat -an row (no socket address) of a connection to remote port q
EstablishedLine(t, fam, q) ==
    JoinWith(<<TransportChars(t) \o <<fam>>, <<"0">>, <<"0">>,
               <<"1", "0", ".", "0", ".", "0", ".", "1", ".">> \o DecChars(OtherPort(q)),
               <<"1", "0", ".", "0", ".", "0", ".", "2", ".">> \o DecChars(q),
               <<"E", "S", "T", "A", "B", "L", "I", "S", "H", "E", "D">>>>, " ")

NetstatLines(t, fam, p) ==
    {ListenLine(t, fam, p), ListenLine(t, fam, OtherPort(p)), EstablishedLine(t, fam, p)}

\* outputs of one enumeration command of at most n rows while port p is queried
NetstatOutputs(t, fam, p, n) ==
    {Unlines(ls) : ls \in SeqsUpTo(NetstatLines(t, fam, p), n)}

\* the outcomes of an enumeration command that the row budget still allows
NetstatOutcomes(t, fam) == ExecOutcomes(NetstatOutputs(t, fam, port, MaxRows - rowsPrinted))

Printed(o) == rowsPrinted + Len(SplitLines(o.out))

LsofHeader ==
    <<"C", "O", "M", "M", "A", "N", "D", " ", "P", "I", "D", " ", "U", "S", "E", "R", " ",
      "F", "D">>

LsofRow ==
    <<"s", "s", "h", "d", " ", "1", "2", "3", "4", " ", "r", "o", "o", "t", " ", "3", "u">>

LsofRowNoPid ==
    <<"i", "n", "e", "t", "d", " ", "-", " ", "r", "o", "o", "t", " ", "3", "u">>

\* outcomes of the lsof pipeline: nothing found, a row with a PID, a row without
LsofOutcomes ==
    {[popen |-> TRUE, status |-> 1, out |-> <<>>],
     [popen |-> TRUE, status |-> 0, out |-> Unlines(<<LsofHeader, LsofRow>>)],
     [popen |-> TRUE, status |-> 0, out |-> Unlines(<<LsofRowNoPid, LsofRow>>)]}

\* the outcomes of the lookups that follow the enumeration outcome o
Oracles(o, p, bits) ==
    IF executeCommand(o, <<>>).ok THEN [1..NumLookups(o.out, p, bits) -> LsofOutcomes]
    ELSE {<<>>}

(***************************************************************************)
(* PortCollector::collect.                                                 *)
(***************************************************************************)
\* lines 32-40: the identifier is parsed; an invalid one returns at once
PortStart ==
    /\ pc = "start"
    /\ mode = "port"
    /\ LET r == parsePort(identifier, longBits)
       IN  IF ~r.ok
           THEN /\ result' = createErrorResult(identifier,
                                 "Invalid port number: " \o Str(identifier))
                /\ pc' = "done"
                /\ UNCHANGED port
           ELSE /\ result' = [MetadataResult EXCEPT !.type = "port",
                                                    !.identifier = Str(identifier)]
                /\ port' = r.port
                /\ pc' = FirstTransport(m_protocol)
    /\ UNCHANGED <<lstatBuf, statBuf, pipe, lookups, argv, json, exitCode, indexFile>>
    /\ UNCHANGED <<mode, identifier, m_protocol, longBits, pid, connections, output,
                   calls, rowsPrinted>>

\* collect returns once transport t is over: the Result is built when nothing follows
TransportOver(t, conns) ==
    /\ pc' = AfterTransport(t, m_protocol)
    /\ result' = IF AfterTransport(t, m_protocol) = "done"
                 THEN PortResult(result, identifier, conns)
                 ELSE result

\* the call of executeCommand for cmd followed by the calls of the parse q
PassParsed(cmd, o, q) ==
    [ok |-> TRUE, connections |-> q.connections, calls |-> ExecCalls(cmd, o) \o q.calls]

\* executeCommand(cmd, output) and, when it succeeds, parseNetstatOutput under the
\* tag protocol
NetstatPass(cmd, protocol, o, oracle) ==
    IF ~executeCommand(o, <<>>).ok
    THEN [ok |-> FALSE, connections |-> connections, calls |-> ExecCalls(cmd, o)]
    ELSE PassParsed(cmd, o, parseNetstatOutput(o.out, port, protocol, connections,
                                               oracle, longBits))

\* what a pass r over the enumeration outcome o leaves behind; prev is the output
\* string before the command
PassEffect(o, r, prev) ==
    /\ rowsPrinted' = Printed(o)
    /\ output' = executeCommand(o, prev).output
    /\ connections' = r.connections
    /\ calls' = calls \o r.calls

\* PrimaryEffect that goes on to the command without -A whatever the first one returned
PrimaryEffectThenAlternate(t, o, r) ==
    /\ PassEffect(o, r, <<>>)
    /\ pc' = t \o "4alt"
    /\ UNCHANGED result

\* lines 144-147: a failed command is followed by the one without -A
PrimaryEffect(t, o, r) ==
    /\ PassEffect(o, r, <<>>)
    /\ pc' = IF r.ok THEN t \o "6" ELSE t \o "4alt"
    /\ UNCHANGED result

AlternateEffect(t, o, r) ==
    /\ PassEffect(o, r, output)
    /\ IF r.ok THEN pc' = t \o "6" /\ UNCHANGED result
       ELSE TransportOver(t, connections)

Inet6Effect(t, o, r) ==
    /\ PassEffect(o, r, output)
    /\ TransportOver(t, r.connections)

\* collectTcpConnections / collectUdpConnections: the netstat -Aan -f inet command
NetstatPrimary(t) ==
    /\ pc = t \o "4"
    /\ \E o \in NetstatOutcomes(t, "4") :
         \E oracle \in Oracles(o, port, longBits) :
           PrimaryEffect(t, o, NetstatPass(PrimaryCmd(t), t, o, oracle))
    /\ UNCHANGED <<lstatBuf, statBuf, pipe, lookups, argv, json, exitCode, indexFile>>
    /\ UNCHANGED <<mode, identifier, m_protocol, longBits, port, pid>>

\* the command without -A, run when the first one failed; its failure returns false
NetstatAlternate(t) ==
    /\ pc = t \o "4alt"
    /\ \E o \in NetstatOutcomes(t, "4") :
         \E oracle \in Oracles(o, port, longBits) :
           AlternateEffect(t, o, NetstatPass(AlternateCmd(t), t, o, oracle))
    /\ UNCHANGED <<lstatBuf, statBuf, pipe, lookups, argv, json, exitCode, indexFile>>
    /\ UNCHANGED <<mode, identifier, m_protocol, longBits, port, pid>>

\* the netstat -Aan -f inet6 command, then the return of the function
NetstatInet6(t) ==
    /\ pc = t \o "6"
    /\ \E o \in NetstatOutcomes(t, "6") :
         \E oracle \in Oracles(o, port, longBits) :
           Inet6Effect(t, o, NetstatPass(Inet6Cmd(t), t \o "6", o, oracle))
    /\ UNCHANGED <<lstatBuf, statBuf, pipe, lookups, argv, json, exitCode, indexFile>>
    /\ UNCHANGED <<mode, identifier, m_protocol, longBits, port, pid>>

(***************************************************************************)
(* Formatting shared by the process and file collectors.                   *)
(***************************************************************************)
HexChar(d) == <<"0", "1", "2", "3", "4", "5", "6", "7", "8", "9",
                "a", "b", "c", "d", "e", "f">>[d + 1]

\* operator<< with std::hex
RECURSIVE HexStr(_)
HexStr(n) == IF n < 16 THEN HexChar(n) ELSE HexStr(n \div 16) \o HexChar(n % 16)

\* operator<< with std::oct
RECURSIVE OctStr(_)
OctStr(n) == IF n < 8 THEN HexChar(n) ELSE OctStr(n \div 8) \o HexChar(n % 8)

Pad2(n) == IF n < 10 THEN "0" \o NumStr(n) ELSE NumStr(n)

\* the calendar date of day z since 1970-01-01
CivilFromDays(z) ==
    LET zz  == z + 719468
        era == zz \div 146097
        doe == zz - era * 146097
        yoe == (doe - (doe \div 1460) + (doe \div 36524) - (doe \div 146096)) \div 365
        doy == doe - (365 * yoe + (yoe \div 4) - (yoe \div 100))
        mp  == (5 * doy + 2) \div 153
        d   == doy - ((153 * mp + 2) \div 5) + 1
        m   == IF mp < 10 THEN mp + 3 ELSE mp - 9
    IN  [year |-> yoe + era * 400 + (IF m <= 2 THEN 1 ELSE 0), month |-> m, day |-> d]

\* timeToString: strftime("%Y-%m-%dT%H:%M:%S") of localtime, the zone being UTC;
\* "unknown" when localtime returns no value
timeToString(timeVal, tmOk) ==
    IF ~tmOk THEN "unknown"
    ELSE LET c   == CivilFromDays(timeVal \div 86400)
             sod == timeVal % 86400
         IN  NumStr(c.year) \o "-" \o Pad2(c.month) \o "-" \o Pad2(c.day) \o "T"
             \o Pad2(sod \div 3600) \o ":" \o Pad2((sod % 3600) \div 60) \o ":"
             \o Pad2(sod % 60)

\* one record of calls for an OS call
OsCall(name, arg, ok) == [call |-> name, arg |-> arg, ok |-> ok]

(***************************************************************************)
(* ProcessCollector, the _AIX branch.  The environment gives the outcome   *)
(* of each OS call: g* of the getprocs64 lookups ([count, entry]), pw and  *)
(* gr of getpwuid and getgrgid (<<>> for a null pointer, else <<record>>). *)
(***************************************************************************)
\* no controlling terminal: pi_ttyd = (dev_t)-1
NoTty == [major |-> -1, minor |-> -1]

stateToString(state) ==
    CASE state = "SNONE" -> "none"
      [] state = "SIDL" -> "idle"
      [] state = "SZOMB" -> "zombie"
      [] state = "SSTOP" -> "stopped"
      [] state = "SACTIVE" -> "active"
      [] state = "SSWAP" -> "swapped"
      [] OTHER -> "unknown"

\* lines 102-170: the attributes of the entry that getprocs64 filled in
BasicInfoAttrs(res, procInfo, pw, gr, pageSize) ==
    LET ids == <<Attr("pid", NumStr(procInfo.pi_pid)),
                 Attr("ppid", NumStr(procInfo.pi_ppid)),
                 Attr("pgid", NumStr(procInfo.pi_pgrp)),
                 Attr("sid", NumStr(procInfo.pi_sid)),
                 Attr("comm", procInfo.pi_comm),
                 Attr("uid", NumStr(procInfo.pi_uid))>>
        owner == IF pw # <<>>
                 THEN <<Attr("user", pw[1].pw_name), Attr("gid", NumStr(pw[1].pw_gid))>>
                      \o (IF gr # <<>> THEN <<Attr("group", gr[1])>> ELSE <<>>)
                 ELSE <<>>
        sched == <<Attr("state", stateToString(procInfo.pi_state)),
                   Attr("priority", NumStr(procInfo.pi_pri)),
                   Attr("nice", NumStr(procInfo.pi_nice)),
                   Attr("cpu", NumStr(procInfo.pi_cpu))>>
        mem == IF pageSize > 0
               THEN <<Attr("virtual_size_kb",
                           NumStr((procInfo.pi_size * pageSize) \div 1024)),
                      Attr("resident_size_kb",
                           NumStr(((procInfo.pi_drss + procInfo.pi_trss) * pageSize)
                                  \div 1024))>>
               ELSE <<>>
        rest == <<Attr("start_time", timeToString(procInfo.pi_start, TRUE)),
                  Attr("num_threads", NumStr(procInfo.pi_thcount)),
                  Attr("flags", "0x" \o HexStr(procInfo.pi_flags)),
                  IF procInfo.pi_ttyd # NoTty
                  THEN Attr("tty", "major:" \o NumStr(procInfo.pi_ttyd.major)
                                   \o ",minor:" \o NumStr(procInfo.pi_ttyd.minor))
                  ELSE Attr("tty", "none")>>
    IN  [ok |-> TRUE,
         result |-> [res EXCEPT !.attributes = @ \o ids \o owner \o sched \o mem \o rest]]

\* collectBasicInfo without the comparison of pi_pid with the PID asked for
collectBasicInfoAnyEntry(p, res, g, pw, gr, pageSize) ==
    IF g.count # 1 THEN [ok |-> FALSE, result |-> res]
    ELSE BasicInfoAttrs(res, g.entry, pw, gr, pageSize)

\* lines 89-170
collectBasicInfo(p, res, g, pw, gr, pageSize) ==
    IF g.count # 1 \/ g.entry.pi_pid # p THEN [ok |-> FALSE, result |-> res]
    ELSE BasicInfoAttrs(res, g.entry, pw, gr, pageSize)

\* lines 310-333; link is <<>> when readlink gives no target, else <<target>>
collectExecutablePath(res, link, g) ==
    IF link # <<>> /\ Len(link[1]) > 0
    THEN [res EXCEPT !.attributes = Append(@, Attr("exe_path", Str(link[1])))]
    ELSE IF g.count = 1
         THEN [res EXCEPT !.attributes = Append(@, Attr("exe_name", g.entry.pi_comm))]
         ELSE res

\* lines 349-361
collectWorkingDirectory(res, link) ==
    IF link # <<>> /\ Len(link[1]) > 0
    THEN [res EXCEPT !.attributes = Append(@, Attr("cwd", Str(link[1])))]
    ELSE res

\* lines 196-210: the arguments re-joined with single spaces, up to the first
\* empty argument
RECURSIVE JoinArgs(_)
JoinArgs(args) ==
    IF args = <<>> \/ Head(args) = <<>> THEN ""
    ELSE LET tl == JoinArgs(Tail(args))
         IN  IF Tail(args) = <<>> \/ Head(Tail(args)) = <<>> THEN Str(Head(args))
             ELSE Str(Head(args)) \o " " \o tl

\* lines 181-216; args is <<>> when getargs fails, else <<argument vector>>
collectCommandLine(res, g, args) ==
    IF g.count = 1 /\ args # <<>> /\ JoinArgs(args[1]) # ""
    THEN [res EXCEPT !.attributes = Append(@, Attr("cmdline", JoinArgs(args[1])))]
    ELSE res

\* lines 377-403; cred is <<>> when /proc/<pid>/cred cannot be opened or read
collectCredentials(res, cred, pw) ==
    IF cred = <<>> THEN res
    ELSE [res EXCEPT !.attributes = @ \o
            <<Attr("euid", NumStr(cred[1].pr_euid)), Attr("egid", NumStr(cred[1].pr_egid)),
              Attr("ruid", NumStr(cred[1].pr_ruid)), Attr("rgid", NumStr(cred[1].pr_rgid)),
              Attr("suid", NumStr(cred[1].pr_suid)), Attr("sgid", NumStr(cred[1].pr_sgid))>>
            \o (IF pw # <<>> THEN <<Attr("effective_user", pw[1].pw_name)>> ELSE <<>>)]

\* lines 272-297: one entry of /proc/<pid>/fd; e is [d_name, link]
RECURSIVE OpenFds(_)
OpenFds(entries) ==
    IF entries = <<>> THEN <<>>
    ELSE LET e == Head(entries)
         IN  IF Head(e.d_name) = "." THEN OpenFds(Tail(entries))
             ELSE IF e.link # <<>> /\ Len(e.link[1]) > 0
                  THEN <<Str(e.d_name) \o ":" \o Str(e.link[1])>> \o OpenFds(Tail(entries))
                  ELSE <<Str(e.d_name)>> \o OpenFds(Tail(entries))

\* collectOpenFiles attaching the list of descriptors even when it is empty
collectOpenFilesAlways(res, dir) ==
    IF dir = <<>> THEN res
    ELSE [res EXCEPT !.attributes = Append(@, AttrList("open_files", OpenFds(dir[1])))]

\* lines 260-303; dir is <<>> when opendir fails, else <<entries>>
collectOpenFiles(res, dir) ==
    IF dir = <<>> THEN res
    ELSE IF OpenFds(dir[1]) # <<>>
         THEN [res EXCEPT !.attributes = Append(@, AttrList("open_files", OpenFds(dir[1])))]
         ELSE res

\* std::getline(stream, field, d) repeated over cs: the fields read successfully
RECURSIVE SplitOn(_, _)
SplitOn(cs, d) ==
    IF cs = <<>> THEN <<>>
    ELSE LET n == IF \E i \in 1..Len(cs) : cs[i] = d
                  THEN (CHOOSE i \in 1..Len(cs) : cs[i] = d /\ \A j \in 1..(i - 1) : cs[j] # d) - 1
                  ELSE Len(cs)
         IN  IF n = Len(cs) THEN <<cs>>
             ELSE <<SubSeq(cs, 1, n)>> \o SplitOn(Drop(cs, n + 1), d)

\* lines 498-503
WparTypeStr(wparType) ==
    CASE wparType = "S" -> "system"
      [] wparType = "A" -> "application"
      [] wparType = "L" -> "versioned"
      [] OTHER -> wparType

\* WparLookup comparing the container id with the first field instead of the fourth
RECURSIVE WparLookupById(_, _, _)
WparLookupById(lines, wparCid, bits) ==
    IF lines = <<>> THEN <<>>
    ELSE LET f == SplitOn(Head(lines), ":")
         IN  IF Len(f) >= 4 /\ CastInt(Strtol(f[1], bits).value) = wparCid
             THEN <<Attr("wpar_name", Str(f[3])), Attr("wpar_id", Str(f[1])),
                    Attr("wpar_type", WparTypeStr(Str(f[2])))>>
             ELSE WparLookupById(Tail(lines), wparCid, bits)

\* lines 482-509: the attributes of the first index line of the container
RECURSIVE WparLookup(_, _, _)
WparLookup(lines, wparCid, bits) ==
    IF lines = <<>> THEN <<>>
    ELSE LET f == SplitOn(Head(lines), ":")
         IN  IF Len(f) >= 4 /\ CastInt(Strtol(f[4], bits).value) = wparCid
             THEN <<Attr("wpar_name", Str(f[3])), Attr("wpar_id", Str(f[1])),
                    Attr("wpar_type", WparTypeStr(Str(f[2])))>>
             ELSE WparLookup(Tail(lines), wparCid, bits)

\* lines 458-513; index is <<>> when /etc/corrals/index cannot be opened
collectWparInfo(p, res, g, index, bits) ==
    IF g.count = 1 /\ g.entry.pi_pid = p
    THEN LET wparCid == g.entry.pi_cid
         IN  [res EXCEPT !.attributes = @ \o <<Attr("wpar_cid", NumStr(wparCid))>> \o
                (IF wparCid = 0 THEN <<Attr("is_container", "false")>>
                 ELSE <<Attr("is_container", "true")>> \o
                      (IF index # <<>>
                       THEN WparLookup(SplitLines(index[1]), wparCid, bits)
                       ELSE <<>>))]
    ELSE res

(***************************************************************************)
(* The environment of a process query.                                     *)
(***************************************************************************)
NextPid(p) == IF p = INT32_MAX THEN 1 ELSE p + 1

ProcEntry(p, comm, cid, state, tty) ==
    [pi_pid |-> p, pi_ppid |-> 1, pi_pgrp |-> p, pi_sid |-> p, pi_comm |-> comm,
     pi_uid |-> 0, pi_state |-> state, pi_pri |-> 60, pi_nice |-> 20, pi_cpu |-> 0,
     pi_size |-> 100, pi_drss |-> 30, pi_trss |-> 10, pi_start |-> 1700000000,
     pi_thcount |-> 1, pi_flags |-> 2097152, pi_ttyd |-> tty, pi_cid |-> cid]

\* getprocs64(&procInfo, ..., &inputPid, 1): no entry, or the first entry at or after
\* the index, which is the process asked for or another one
Lookups(p) ==
    {[count |-> 0, entry |-> ProcEntry(0, "", 0, "SNONE", NoTty)],
     [count |-> 1, entry |-> ProcEntry(p, "sshd", 0, "SACTIVE", NoTty)],
     [count |-> 1, entry |-> ProcEntry(p, "java", 2, "SZOMB", [major |-> 1, minor |-> 2])],
     [count |-> 1, entry |-> ProcEntry(NextPid(p), "cron", 1, "SSTOP", NoTty)]}

\* getargs on an entry: failure, or the argument vector of that process
ArgsOf(entry) ==
    {<<>>,
     IF entry.pi_comm = "sshd" THEN <<<<<<"s", "s", "h", "d">>, <<"-", "D">>>>>>
     ELSE IF entry.pi_comm = "cron" THEN <<<<<<"c", "r", "o", "n">>>>>>
     ELSE <<<<>>>>}

Passwds == {<<>>, <<[pw_name |-> "root", pw_gid |-> 0]>>}

Groups == {<<>>, <<"system">>}

Links == {<<>>, <<<<"/", "u", "s", "r">>>>}

Creds == {<<>>, <<[pr_euid |-> 0, pr_egid |-> 0, pr_ruid |-> 100, pr_rgid |-> 100,
                   pr_suid |-> 0, pr_sgid |-> 0]>>}

FdDirs ==
    {<<>>,
     <<<<[d_name |-> <<".">>, link |-> <<>>], [d_name |-> <<".", ".">>, link |-> <<>>]>>>>,
     <<<<[d_name |-> <<".">>, link |-> <<>>],
         [d_name |-> <<"0">>, link |-> <<<<"/", "d", "e", "v">>>>],
         [d_name |-> <<"3">>, link |-> <<>>]>>>>}

\* /etc/corrals/index: absent, or lines id:type:name:kernelId
WparIndexes ==
    {<<>>,
     <<Unlines(<<<<"1", ":", "S", ":", "w", "e", "b", ":", "1">>,
                 <<"7", ":", "A", ":", "a", "p", "p", ":", "2">>,
                 <<"9", ":", "L", ":", "o", "l", "d", ":", "2">>>>)>>,
     <<Unlines(<<<<"2", ":", "S", ":", "w", "e", "b", ":", "1">>,
                 <<"b", "a", "d", " ", "l", "i", "n", "e">>>>)>>,
     <<Unlines(<<<<"4", ":", "S", ":", "n", "o">>,
                 <<"5", ":", "X", ":", "r", "a", "w", ":", " ", "2">>,
                 <<"7", ":", "A", ":", "a", "p", "p", ":", "2">>>>)>>}

(***************************************************************************)
(* ProcessCollector::collect.                                              *)
(***************************************************************************)
\* lines 39-47: the identifier is parsed; an invalid one returns at once
ProcessStart ==
    /\ pc = "start"
    /\ mode = "process"
    /\ LET r == parsePid(identifier, longBits)
       IN  IF ~r.ok
           THEN /\ result' = createErrorResult(identifier,
                                 "Invalid PID format: " \o Str(identifier))
                /\ pc' = "done"
                /\ UNCHANGED pid
           ELSE /\ result' = [MetadataResult EXCEPT !.type = "process",
                                                    !.identifier = Str(identifier)]
                /\ pid' = r.pid
                /\ pc' = "basic"
    /\ UNCHANGED <<lstatBuf, statBuf, pipe, lookups, argv, json, exitCode, indexFile>>
    /\ UNCHANGED <<mode, identifier, m_protocol, longBits, port, connections, output,
                   calls, rowsPrinted>>

\* lines 49-68: the process is looked up; if it is there, the other collections follow
ProcessCollect ==
    /\ pc = "basic"
    /\ pc' = "done"
    /\ \E g1 \in Lookups(pid), pw \in Passwds :
       \E gr \in (IF pw = <<>> THEN {<<>>} ELSE Groups) :
         LET b == collectBasicInfo(pid, result, g1, pw, gr, 4096)
             arg == NumStr(pid)
         IN  IF ~b.ok
             THEN /\ result' = createErrorResult(identifier,
                        "Process not found or access denied for PID: " \o Str(identifier))
                  /\ calls' = calls \o <<OsCall("getprocs64", arg, FALSE)>>
                  /\ lookups' = lookups \o <<g1>>
                  /\ UNCHANGED indexFile
             ELSE \E exe \in Links, cwd \in Links, g3 \in Lookups(pid), g4 \in Lookups(pid),
                     cred \in Creds, dir \in FdDirs :
                  \E g2 \in (IF exe # <<>> THEN {g1} ELSE Lookups(pid)),
                     args \in (IF g3.count = 1 THEN ArgsOf(g3.entry) ELSE {<<>>}),
                     pw2 \in (IF cred = <<>> THEN {<<>>} ELSE Passwds),
                     index \in (IF g4.count = 1 /\ g4.entry.pi_pid = pid /\ g4.entry.pi_cid # 0
                                THEN WparIndexes ELSE {<<>>}) :
                    /\ result' =
                         collectWparInfo(pid,
                           collectOpenFiles(
                             collectCredentials(
                               collectCommandLine(
                                 collectWorkingDirectory(
                                   collectExecutablePath([b.result EXCEPT !.success = TRUE],
                                                         exe, g2),
                                   cwd),
                                 g3, args),
                               cred, pw2),
                             dir),
                           g4, index, longBits)
                    /\ indexFile' = index
                    /\ lookups' = lookups \o <<g1>>
                         \o (IF exe = <<>> THEN <<g2>> ELSE <<>>) \o <<g3, g4>>
                    /\ calls' = calls
                         \o <<OsCall("getprocs64", arg, TRUE),
                              OsCall("readlink", "/proc/" \o arg \o "/object/a.out", exe # <<>>)>>
                         \o (IF exe = <<>> THEN <<OsCall("getprocs64", arg, g2.count = 1)>>
                             ELSE <<>>)
                         \o <<OsCall("readlink", "/proc/" \o arg \o "/cwd", cwd # <<>>),
                              OsCall("getprocs64", arg, g3.count = 1)>>
                         \o (IF g3.count = 1 THEN <<OsCall("getargs", arg, args # <<>>)>>
                             ELSE <<>>)
                         \o <<OsCall("open", "/proc/" \o arg \o "/cred", cred # <<>>),
                              OsCall("opendir", "/proc/" \o arg \o "/fd", dir # <<>>),
                              OsCall("getprocs64", arg, g4.count = 1)>>
                         \o (IF g4.count = 1 /\ g4.entry.pi_pid = pid /\ g4.entry.pi_cid # 0
                             THEN <<OsCall("open", "/etc/corrals/index", index # <<>>)>>
                             ELSE <<>>)
    /\ UNCHANGED <<lstatBuf, statBuf, pipe, argv, json, exitCode>>
    /\ UNCHANGED <<mode, identifier, m_protocol, longBits, port, pid, connections,
                   output, rowsPrinted>>

(***************************************************************************)
(* FileCollector.  A stat buffer is a record; st_mode is [type, perm],     *)
(* the file type and the bits of st_mode & 07777.                          *)
(***************************************************************************)
\* mode & bit, for a single-bit mask
HasBit(perm, bit) == (perm \div bit) % 2 = 1

\* lines 218-227
fileTypeToString(type) ==
    CASE type = "S_IFREG" -> "regular"
      [] type = "S_IFDIR" -> "directory"
      [] type = "S_IFLNK" -> "symlink"
      [] type = "S_IFBLK" -> "block_device"
      [] type = "S_IFCHR" -> "character_device"
      [] type = "S_IFIFO" -> "fifo"
      [] type = "S_IFSOCK" -> "socket"
      [] OTHER -> "unknown"

\* modeToSymbolic that does not look at the sticky bit
modeToSymbolicNoSticky(perm) ==
    (IF HasBit(perm, 256) THEN "r" ELSE "-")
    \o (IF HasBit(perm, 128) THEN "w" ELSE "-")
    \o (IF HasBit(perm, 2048)
        THEN (IF HasBit(perm, 64) THEN "s" ELSE "S")
        ELSE (IF HasBit(perm, 64) THEN "x" ELSE "-"))
    \o (IF HasBit(perm, 32) THEN "r" ELSE "-")
    \o (IF HasBit(perm, 16) THEN "w" ELSE "-")
    \o (IF HasBit(perm, 1024)
        THEN (IF HasBit(perm, 8) THEN "s" ELSE "S")
        ELSE (IF HasBit(perm, 8) THEN "x" ELSE "-"))
    \o (IF HasBit(perm, 4) THEN "r" ELSE "-")
    \o (IF HasBit(perm, 2) THEN "w" ELSE "-")
    \o (IF HasBit(perm, 1) THEN "x" ELSE "-")

\* lines 229-261; S_IRUSR = 0400 ... S_IXOTH = 01, S_ISUID = 04000, S_ISGID = 02000,
\* S_ISVTX = 01000
modeToSymbolic(perm) ==
    (IF HasBit(perm, 256) THEN "r" ELSE "-")
    \o (IF HasBit(perm, 128) THEN "w" ELSE "-")
    \o (IF HasBit(perm, 2048)
        THEN (IF HasBit(perm, 64) THEN "s" ELSE "S")
        ELSE (IF HasBit(perm, 64) THEN "x" ELSE "-"))
    \o (IF HasBit(perm, 32) THEN "r" ELSE "-")
    \o (IF HasBit(perm, 16) THEN "w" ELSE "-")
    \o (IF HasBit(perm, 1024)
        THEN (IF HasBit(perm, 8) THEN "s" ELSE "S")
        ELSE (IF HasBit(perm, 8) THEN "x" ELSE "-"))
    \o (IF HasBit(perm, 4) THEN "r" ELSE "-")
    \o (IF HasBit(perm, 2) THEN "w" ELSE "-")
    \o (IF HasBit(perm, 512)
        THEN (IF HasBit(perm, 1) THEN "t" ELSE "T")
        ELSE (IF HasBit(perm, 1) THEN "x" ELSE "-"))

\* collectSymlinkInfo that says nothing of a target it cannot read
collectSymlinkInfoNoFallback(res, link) ==
    [res EXCEPT !.attributes = @ \o <<Attr("is_symlink", "true")>> \o
        (IF link # <<>> /\ Len(link[1]) > 0
         THEN <<Attr("symlink_target", Str(link[1])),
                Attr("symlink_type", IF link[1][1] = "/" THEN "absolute" ELSE "relative")>>
         ELSE <<>>)]

\* lines 159-181; link is <<>> when readlink gives no target, else <<target>>
collectSymlinkInfo(res, link) ==
    [res EXCEPT !.attributes = @ \o <<Attr("is_symlink", "true")>> \o
        (IF link # <<>> /\ Len(link[1]) > 0
         THEN <<Attr("symlink_target", Str(link[1])),
                Attr("symlink_type", IF link[1][1] = "/" THEN "absolute" ELSE "relative")>>
         ELSE <<Attr("symlink_target", "unreadable")>>)]

\* lines 183-205
collectOwnership(res, buf, pw, gr) ==
    [res EXCEPT !.attributes = @ \o
        <<Attr("uid", NumStr(buf.st_uid)),
          Attr("owner", IF pw # <<>> THEN pw[1].pw_name ELSE "unknown"),
          Attr("gid", NumStr(buf.st_gid)),
          Attr("group", IF gr # <<>> THEN gr[1] ELSE "unknown")>>]

\* collectAccessInfo that reports an unreadable file as a failure
collectAccessInfoStrict(res, acc) ==
    [res EXCEPT !.success = acc[1],
                !.attributes = @ \o
        <<Attr("current_user_readable", IF acc[1] THEN "true" ELSE "false"),
          Attr("current_user_writable", IF acc[2] THEN "true" ELSE "false"),
          Attr("current_user_executable", IF acc[3] THEN "true" ELSE "false")>>]

\* lines 207-216; acc is the outcome of access for R_OK, W_OK and X_OK
collectAccessInfo(res, acc) ==
    [res EXCEPT !.attributes = @ \o
        <<Attr("current_user_readable", IF acc[1] THEN "true" ELSE "false"),
          Attr("current_user_writable", IF acc[2] THEN "true" ELSE "false"),
          Attr("current_user_executable", IF acc[3] THEN "true" ELSE "false")>>]

\* lines 68-157; lst and st are the outcomes of lstat64 and stat64
collectStats(path, res, lst, st, link, pw, gr) ==
    IF ~lst.ok
    THEN [ok |-> FALSE,
          result |-> [res EXCEPT !.success = FALSE,
                                 !.errorMessage = "Cannot stat file '" \o Str(path)
                                                  \o "': " \o lst.err]]
    ELSE LET lbuf == lst.buf
             isSymlink == lbuf.st_mode.type = "S_IFLNK"
             sbuf == IF isSymlink /\ st.ok THEN st.buf ELSE lbuf
             r1 == IF isSymlink /\ ~st.ok
                   THEN [res EXCEPT !.attributes = Append(@, Attr("symlink_broken", "true"))]
                   ELSE res
             r2 == IF isSymlink THEN collectSymlinkInfo(r1, link) ELSE r1
             perm == sbuf.st_mode.perm
             r3 == [r2 EXCEPT !.attributes = @ \o
                      <<Attr("type", fileTypeToString(lbuf.st_mode.type)),
                        Attr("size", NumStr(sbuf.st_size)),
                        Attr("device", NumStr(sbuf.st_dev)),
                        Attr("inode", NumStr(sbuf.st_ino)),
                        Attr("nlink", NumStr(sbuf.st_nlink)),
                        Attr("mode_octal", "0" \o OctStr(perm)),
                        Attr("mode_symbolic", modeToSymbolic(perm))>>
                      \o (IF HasBit(perm, 2048) THEN <<Attr("setuid", "true")>> ELSE <<>>)
                      \o (IF HasBit(perm, 1024) THEN <<Attr("setgid", "true")>> ELSE <<>>)
                      \o (IF HasBit(perm, 512) THEN <<Attr("sticky", "true")>> ELSE <<>>)]
             r4 == collectOwnership(r3, sbuf, pw, gr)
             r5 == [r4 EXCEPT !.attributes = @ \o
                      <<Attr("access_time", timeToString(sbuf.st_atime, TRUE)),
                        Attr("modify_time", timeToString(sbuf.st_mtime, TRUE)),
                        Attr("change_time", timeToString(sbuf.st_ctime, TRUE)),
                        Attr("atime_epoch", NumStr(sbuf.st_atime)),
                        Attr("mtime_epoch", NumStr(sbuf.st_mtime)),
                        Attr("ctime_epoch", NumStr(sbuf.st_ctime)),
                        Attr("block_size", NumStr(sbuf.st_blksize)),
                        Attr("blocks", NumStr(sbuf.st_blocks))>>
                      \o (IF sbuf.st_mode.type \in {"S_IFBLK", "S_IFCHR"}
                          THEN <<Attr("rdev_major", NumStr(sbuf.st_rdev.major)),
                                 Attr("rdev_minor", NumStr(sbuf.st_rdev.minor))>>
                          ELSE <<>>)]
         IN  [ok |-> TRUE, lstatBuf |-> lbuf, statBuf |-> sbuf, result |-> r5]

(***************************************************************************)
(* The environment of a file query.                                        *)
(***************************************************************************)
FileTypes == {"S_IFREG", "S_IFDIR", "S_IFLNK", "S_IFBLK", "S_IFCHR", "S_IFIFO",
              "S_IFSOCK", "S_IFMT"}

\* 0644, 04755 and 01777
FilePerms == {420, 2541, 1023}

StatBuf(type, perm, size) ==
    [st_mode |-> [type |-> type, perm |-> perm], st_size |-> size, st_dev |-> 10,
     st_ino |-> 4242, st_nlink |-> 1, st_uid |-> 0, st_gid |-> 0,
     st_atime |-> 1700000000, st_mtime |-> 1600000000, st_ctime |-> 1650000000,
     st_blksize |-> 4096, st_blocks |-> 8, st_rdev |-> [major |-> 3, minor |-> 1]]

NoStat == [ok |-> FALSE, err |-> "", buf |-> StatBuf("S_IFMT", 0, 0)]

\* lstat64 of the path: an errno, or the attributes of the entity itself
LstatOutcomes ==
    {[NoStat EXCEPT !.err = e] : e \in {"No such file or directory", "Permission denied"}}
    \cup {[ok |-> TRUE, err |-> "", buf |-> StatBuf(ty, pm, 11)] :
            ty \in FileTypes, pm \in FilePerms}

\* the attributes of the target of a symbolic link: another size, owner and times
TargetBuf ==
    [StatBuf("S_IFREG", 420, 2048) EXCEPT !.st_ino = 4343, !.st_uid = 100, !.st_gid = 100,
                                          !.st_atime = 1710000000, !.st_mtime = 1610000000,
                                          !.st_ctime = 1660000000]

\* stat64 of a symbolic link: no target, or the attributes of the target
StatOutcomes == {NoStat, [ok |-> TRUE, err |-> "", buf |-> TargetBuf]}

SymlinkTargets == {<<>>, <<<<"/", "t">>>>, <<<<"t">>>>}

AccessOutcomes == {<<TRUE, TRUE, TRUE>>, <<TRUE, FALSE, FALSE>>, <<FALSE, FALSE, FALSE>>}

(***************************************************************************)
(* FileCollector::collect, lines 46-66.                                    *)
(***************************************************************************)
\* lstats are the outcomes lstat64 can have
FileCollectWith(lstats) ==
    /\ pc = "start"
    /\ mode = "file"
    /\ pc' = "done"
    /\ LET res == [MetadataResult EXCEPT !.type = "file", !.identifier = Str(identifier)]
           path == Str(identifier)
       IN  IF identifier = <<>>
           THEN /\ result' = createErrorResult(identifier, "Empty file path")
                /\ UNCHANGED <<calls, lstatBuf, statBuf>>
           ELSE \E lst \in lstats :
                  LET isSymlink == lst.ok /\ lst.buf.st_mode.type = "S_IFLNK"
                  IN  \E st \in (IF isSymlink THEN StatOutcomes ELSE {NoStat}),
                         link \in (IF isSymlink THEN SymlinkTargets ELSE {<<>>}),
                         pw \in (IF lst.ok THEN Passwds ELSE {<<>>}),
                         gr \in (IF lst.ok THEN Groups ELSE {<<>>}),
                         acc \in (IF lst.ok THEN AccessOutcomes
                                  ELSE {<<FALSE, FALSE, FALSE>>}) :
                        LET c == collectStats(identifier, res, lst, st, link, pw, gr)
                        IN  IF ~c.ok
                            THEN /\ result' = c.result
                                 /\ calls' = calls \o <<OsCall("lstat64", path, FALSE)>>
                                 /\ UNCHANGED <<lstatBuf, statBuf>>
                            ELSE /\ result' = collectAccessInfo(
                                                [c.result EXCEPT !.success = TRUE], acc)
                                 /\ lstatBuf' = c.lstatBuf
                                 /\ statBuf' = c.statBuf
                                 /\ calls' = calls
                                      \o <<OsCall("lstat64", path, TRUE)>>
                                      \o (IF isSymlink
                                          THEN <<OsCall("stat64", path, st.ok),
                                                 OsCall("readlink", path, link # <<>>)>>
                                          ELSE <<>>)
                                      \o <<OsCall("access", path, acc[1]),
                                           OsCall("access", path, acc[2]),
                                           OsCall("access", path, acc[3])>>
    /\ UNCHANGED <<mode, identifier, m_protocol, longBits, port, pid, connections,
                   output, rowsPrinted, pipe, lookups, argv, json, exitCode, indexFile>>

FileCollect == FileCollectWith(LstatOutcomes)

(***************************************************************************)
(* One invocation of the tool.                                             *)
(***************************************************************************)
Protocols == {"TCP", "UDP", "Both"}

\* identifiers of the invocations followed to their end
PortIds == {<<"2", "2">>, <<"0">>, <<>>, <<"2", "2", "x">>,
            <<"6", "5", "5", "3", "6">>}

PidIds == {<<"4", "2">>, <<"0">>, <<>>, <<"4", "2", "x">>}

FilePaths == {<<>>, <<"/", "e", "t", "c">>, <<"l", "n">>}

InitWith(ids) ==
    /\ pc = "start"
    /\ mode \in DOMAIN ids
    /\ identifier \in ids[mode]
    /\ m_protocol \in (IF mode = "port" THEN Protocols ELSE {"Both"})
    /\ longBits \in {32, 64}
    /\ port = 0
    /\ pid = 0
    /\ connections = <<>>
    /\ output = <<>>
    /\ calls = <<>>
    /\ rowsPrinted = 0
    /\ lstatBuf = NoStat.buf
    /\ statBuf = NoStat.buf
    /\ pipe = <<>>
    /\ lookups = <<>>
    /\ argv = <<>>
    /\ json = ""
    /\ exitCode = -1
    /\ indexFile = <<>>
    /\ result = MetadataResult

Init == InitWith([port |-> PortIds, process |-> PidIds, file |-> FilePaths])

Next ==
    \/ PortStart
    \/ \E t \in Transports : NetstatPrimary(t)
    \/ \E t \in Transports : NetstatAlternate(t)
    \/ \E t \in Transports : NetstatInet6(t)
    \/ ProcessStart
    \/ ProcessCollect
    \/ FileCollect

Spec == Init /\ [][Next]_vars

(***************************************************************************)
(* The identifier checks alone, over every identifier of at most MaxIdLen  *)
(* characters of IdAlphabet and the identifiers at the limits of the       *)
(* integer types.  An accepted identifier stops where the queries begin.   *)
(***************************************************************************)
IdAlphabet == {"0", "1", "7", " ", "+", "-", "x"}

LimitIds ==
    {<<"6", "5", "5", "3", "5">>,
     <<"6", "5", "5", "3", "6">>,
     <<"6", "5", "5", "3", "5", "x">>,
     <<"2", "1", "4", "7", "4", "8", "3", "6", "4", "7">>,
     <<"2", "1", "4", "7", "4", "8", "3", "6", "4", "8">>,
     <<"4", "2", "9", "4", "9", "6", "7", "2", "9", "7">>,
     <<"9", "2", "2", "3", "3", "7", "2", "0", "3", "6", "8", "5", "4", "7", "7", "5", "8",
       "0", "8">>,
     <<"9", "9", "9", "9", "9", "9", "9", "9", "9", "9", "9", "9", "9", "9", "9", "9", "9",
       "9", "9", "9">>,
     <<"-", "9", "9", "9", "9", "9", "9", "9", "9", "9", "9", "9", "9", "9", "9", "9", "9",
       "9", "9", "9", "9">>}

ParseIds == SeqsUpTo(IdAlphabet, MaxIdLen) \cup LimitIds

InitParse == InitWith([port |-> ParseIds, process |-> ParseIds])

NextParse ==
    \/ PortStart
    \/ ProcessStart

SpecParse == InitParse /\ [][NextParse]_vars

(***************************************************************************)
(* parseNetstatOutput alone, over outputs of at most MaxParseLines lines   *)
(* whose tokens take the shapes the parser distinguishes.                  *)
(***************************************************************************)
\* most lines of a parsed output
MaxParseLines == 1

TargetPorts == {22, UINT16_MAX}

ListenChars == <<"L", "I", "S", "T", "E", "N">>

\* local address tokens: the target port, another port, a port with a suffix, a
\* sign or a leading zero, a port that is the target modulo 2^16, no port, no dot
LocalTokens(p) ==
    {<<"*", ".">> \o DecChars(p),
     <<"1", "0", ".", "0", ".", "0", ".", "1", ".">> \o DecChars(p),
     <<"*", ".">> \o DecChars(OtherPort(p)),
     <<"*", ".">> \o DecChars(p) \o <<"x">>,
     <<"*", ".", "+">> \o DecChars(p),
     <<"*", ".", "0">> \o DecChars(p),
     <<"*", ".">> \o DecChars(p + UINT16_MAX + 1),
     <<"*", ".">>,
     DecChars(p)}

ForeignTokens(p) ==
    {<<"*", ".", "*">>,
     <<"1", "0", ".", "0", ".", "0", ".", "2", ".">> \o DecChars(p),
     <<"1", "0", ".", "0", ".", "0", ".", "2", ".">> \o DecChars(OtherPort(p)),
     <<"*">>}

\* first tokens around the socket-address test: ten hexadecimal characters, eleven,
\* eleven in upper case, sixteen characters of which one is not hexadecimal
HandleTokens ==
    {<<"f", "1", "0", "0", "0", "e", "0", "0", "0", "1">>,
     <<"f", "1", "0", "0", "0", "e", "0", "0", "0", "1", "8">>,
     <<"F", "1", "0", "0", "0", "E", "0", "0", "0", "1", "A">>,
     <<"f", "1", "0", "0", "0", "e", "0", "0", "0", "1", "8", "9", "1", "3", "9", "g">>}

\* rows with and without a socket address, rows whose first token is near a socket
\* address, a row with a seventh column, rows without a state column, an empty line
ParseLineSet(p) ==
    {JoinWith(h \o <<<<"t", "c", "p", "4">>, <<"0">>, <<"0">>, l, f, ListenChars>>, " ") :
        h \in {<<>>, <<SocketHandle>>}, l \in LocalTokens(p), f \in ForeignTokens(p)}
    \cup {JoinWith(<<h, <<"t", "c", "p", "4">>, <<"0">>, <<"0">>,
                      <<"*", ".">> \o DecChars(p), <<"*", ".", "*">>, ListenChars>>, " ") :
            h \in HandleTokens}
    \cup {JoinWith(<<<<"t", "c", "p", "4">>, <<"0">>, <<"0">>, <<"*", ".">> \o DecChars(p),
                     <<"*", ".", "*">>, ListenChars, <<"-">>>>, " ")}
    \cup {JoinWith(h \o <<<<"u", "d", "p", "4">>, <<"0">>, <<"0">>,
                          <<"*", ".">> \o DecChars(p), <<"*", ".", "*">>>>, " ") :
            h \in {<<>>, <<SocketHandle>>}}
    \cup {<<>>}

PassTags == {"tcp", "udp6"}

\* the position of collect at which the pass with tag protocol parses its output
PassOf(protocol) == IF protocol \in Transports THEN protocol \o "4" ELSE protocol

InitNetstat ==
    /\ pc \in {PassOf(protocol) : protocol \in PassTags}
    /\ mode = "port"
    /\ port \in TargetPorts
    /\ identifier = DecChars(port)
    /\ m_protocol = "Both"
    /\ longBits \in {32, 64}
    /\ pid = 0
    /\ connections = <<>>
    /\ output \in {Unlines(ls) : ls \in SeqsUpTo(ParseLineSet(port), MaxParseLines)}
    /\ calls = <<>>
    /\ rowsPrinted = 0
    /\ lstatBuf = NoStat.buf
    /\ statBuf = NoStat.buf
    /\ pipe = <<>>
    /\ lookups = <<>>
    /\ argv = <<>>
    /\ json = ""
    /\ exitCode = -1
    /\ indexFile = <<>>
    /\ result = [MetadataResult EXCEPT !.type = "port", !.identifier = Str(identifier)]

\* parseNetstatOutput(output, port, protocol, connections)
ParseOutput ==
    /\ pc' = "parsed"
    /\ \E protocol \in PassTags :
         /\ pc = PassOf(protocol)
         /\ \E oracle \in [1..NumLookups(output, port, longBits) -> LsofOutcomes] :
              /\ connections' = parseNetstatOutput(output, port, protocol, connections,
                                                   oracle, longBits).connections
              /\ calls' = parseNetstatOutput(output, port, protocol, connections,
                                             oracle, longBits).calls
    /\ UNCHANGED <<lstatBuf, statBuf, pipe, lookups, argv, json, exitCode, indexFile>>
    /\ UNCHANGED <<mode, identifier, m_protocol, longBits, port, pid, output, rowsPrinted,
                   result>>

NextNetstat == ParseOutput

SpecNetstat == InitNetstat /\ [][NextNetstat]_vars

(***************************************************************************)
(* findProcessForPort alone, over lsof outputs of at most MaxLsofRows rows *)
(* with the shapes its loop distinguishes.                                 *)
(***************************************************************************)
\* most rows of an lsof output
MaxLsofRows == 2

\* the header, rows with a PID, with a dash, with a PID followed by a letter, with a
\* signed PID, rows of one and of two columns, an empty line
LsofRows ==
    {LsofHeader, LsofRow, LsofRowNoPid,
     <<"c", "r", "o", "n", " ", "1", "2", "x", " ", "a", "d", "m">>,
     <<"n", "t", "p", "d", " ", "+", "7", " ", "n", "t", "p">>,
     <<"s", "s", "h", "d", " ", "1", "2", "3", "4">>,
     <<"s", "s", "h", "d">>,
     <<>>}

InitLsof ==
    /\ pc = "lsof"
    /\ mode = "port"
    /\ port \in TargetPorts
    /\ identifier = DecChars(port)
    /\ m_protocol = "Both"
    /\ longBits \in {32, 64}
    /\ pid = 0
    /\ connections = <<LineInfo("tcp", <<"*", ".">> \o DecChars(port), 2, <<"*", ".", "*">>, 2,
                                ListenChars)>>
    /\ output \in {Unlines(ls) : ls \in SeqsUpTo(LsofRows, MaxLsofRows)}
    /\ calls = <<>>
    /\ rowsPrinted = 0
    /\ lstatBuf = NoStat.buf
    /\ statBuf = NoStat.buf
    /\ pipe = <<>>
    /\ lookups = <<>>
    /\ argv = <<>>
    /\ json = ""
    /\ exitCode = -1
    /\ indexFile = <<>>
    /\ result = [MetadataResult EXCEPT !.type = "port", !.identifier = Str(identifier)]

\* findProcessForPort(port, protocol, info) when lsof prints output
FindProcess ==
    /\ pc = "lsof"
    /\ pc' = "looked"
    /\ \E o \in ExecOutcomes({output}) :
         /\ connections' = <<findProcessForPort(connections[1], o, longBits)>>
         /\ calls' = ExecCalls(LsofCmd(port, connections[1].protocol), o)
    /\ UNCHANGED <<mode, identifier, m_protocol, longBits, port, pid, output, rowsPrinted,
                   lstatBuf, statBuf, pipe, lookups, argv, json, exitCode, indexFile,
                   result>>

NextLsof == FindProcess

SpecLsof == InitLsof /\ [][NextLsof]_vars

(***************************************************************************)
(* PortCollector::executeCommand step by step, lines 117-133: popen, the   *)
(* fgets loop, pclose and the return, for the commands of one collect one  *)
(* after the other.  An open pipe holds what the subprocess has still to   *)
(* print and the status pclose will give.                                  *)
(***************************************************************************)
\* most commands of one collect
MaxCommands == 2

ExecCmds == {PrimaryCmd("tcp"), LsofCmd(22, "tcp")}

\* what a subprocess prints: nothing, one row, two rows
ExecOutputs ==
    NetstatOutputs("tcp", "4", 22, 1)
    \cup {Unlines(<<ListenLine("tcp", "4", 22), EstablishedLine("tcp", "4", 22)>>)}

\* the calls of executeCommand that have returned
Returned == {i \in 1..Len(calls) : calls[i].call = "executeCommand"}

\* pclose that leaves the pipe open
PcloseSkipped(pipes) == pipes

\* line 131: pclose closes the pipe and reaps the subprocess
Pclose(pipes) == SubSeq(pipes, 1, Len(pipes) - 1)

\* the characters one fgets reads: up to and including the next newline
FgetsRun(pending) ==
    IF LineRun(pending) < Len(pending) THEN LineRun(pending) + 1 ELSE LineRun(pending)

InitExec ==
    /\ pc = "exec"
    /\ mode = "port"
    /\ port = 22
    /\ identifier = DecChars(port)
    /\ m_protocol \in Protocols
    /\ longBits \in {32, 64}
    /\ pid = 0
    /\ connections = <<>>
    /\ output = <<>>
    /\ calls = <<>>
    /\ rowsPrinted = 0
    /\ lstatBuf = NoStat.buf
    /\ statBuf = NoStat.buf
    /\ pipe = <<>>
    /\ lookups = <<>>
    /\ argv = <<>>
    /\ json = ""
    /\ exitCode = -1
    /\ indexFile = <<>>
    /\ result = [MetadataResult EXCEPT !.type = "port", !.identifier = Str(identifier)]

\* lines 119-125: popen; no pipe returns false at once, a pipe clears output
ExecPopen ==
    /\ pc \in {"exec", "returned"}
    /\ Cardinality(Returned) < MaxCommands
    /\ \E cmd \in ExecCmds, o \in ExecOutcomes(ExecOutputs) :
         IF ~o.popen
         THEN /\ calls' = calls \o <<OsCall("popen", cmd, FALSE),
                                     OsCall("executeCommand", cmd, FALSE)>>
              /\ pc' = "returned"
              /\ UNCHANGED <<pipe, output>>
         ELSE /\ calls' = Append(calls, OsCall("popen", cmd, TRUE))
              /\ pipe' = Append(pipe, [cmd |-> cmd, pending |-> o.out, status |-> o.status])
              /\ output' = <<>>
              /\ pc' = "fgets"
    /\ UNCHANGED <<mode, identifier, m_protocol, longBits, port, pid, connections,
                   rowsPrinted, lstatBuf, statBuf, lookups, argv, json, exitCode,
                   indexFile, result>>

\* lines 127-129: one fgets; at the end of the stream the loop is left
ExecFgets ==
    /\ pc = "fgets"
    /\ IF pipe[Len(pipe)].pending = <<>>
       THEN pc' = "pclose" /\ UNCHANGED <<pipe, output>>
       ELSE /\ output' = output \o SubSeq(pipe[Len(pipe)].pending, 1,
                                           FgetsRun(pipe[Len(pipe)].pending))
            /\ pipe' = [pipe EXCEPT ![Len(pipe)].pending = Drop(@, FgetsRun(@))]
            /\ pc' = "fgets"
    /\ UNCHANGED <<mode, identifier, m_protocol, longBits, port, pid, connections, calls,
                   rowsPrinted, lstatBuf, statBuf, lookups, argv, json, exitCode,
                   indexFile, result>>

\* lines 131-132: pclose, then the return value
ExecPclose ==
    /\ pc = "pclose"
    /\ pipe' = Pclose(pipe)
    /\ calls' = calls \o
         <<OsCall("pclose", pipe[Len(pipe)].cmd, pipe[Len(pipe)].status = 0),
           OsCall("executeCommand", pipe[Len(pipe)].cmd,
                  pipe[Len(pipe)].status = 0 \/ output # <<>>)>>
    /\ pc' = "returned"
    /\ UNCHANGED <<mode, identifier, m_protocol, longBits, port, pid, connections, output,
                   rowsPrinted, lstatBuf, statBuf, lookups, argv, json, exitCode,
                   indexFile, result>>

NextExec ==
    \/ ExecPopen
    \/ ExecFgets
    \/ ExecPclose

SpecExec == InitExec /\ [][NextExec]_vars

(***************************************************************************)
(* FileCollector::collect on a regular file, over every value of the       *)
(* permission bits st_mode & 07777.                                        *)
(***************************************************************************)
\* 07777
PermMask == 4095

ModePaths == {<<"f">>}

\* lstat64 of a regular file with each permission value
ModeOutcomes ==
    {[ok |-> TRUE, err |-> "", buf |-> StatBuf("S_IFREG", pm, 11)] : pm \in 0..PermMask}

InitMode == InitWith([file |-> ModePaths])

FileCollectModes == FileCollectWith(ModeOutcomes)

NextMode == FileCollectModes

SpecMode == InitMode /\ [][NextMode]_vars

(***************************************************************************)
(* ProcessCollector::collect alone, over the PIDs of PidIds and every      *)
(* answer of the process table at each of its lookups.                     *)
(***************************************************************************)
InitProc == InitWith([process |-> PidIds])

NextProc ==
    \/ ProcessStart
    \/ ProcessCollect

SpecProc == InitProc /\ [][NextProc]_vars

(***************************************************************************)
(* JsonFormatter.  Strings are strings here; Chars gives their characters. *)
(***************************************************************************)
Chars(s) == [i \in 1..Len(s) |-> SubSeq(s, i, i)]

\* the characters with codes 1 to 31, in the order of their codes (those for
\* which the language has no escape are written as they are, between the quotes)
ControlChars ==
    <<"", "", "", "", "", "", "", "", "\t", "\n", "", "\f", "\r",
      "", "", "", "", "", "", "", "", "",
      "", "", "", "", "", "", "", "", "">>

\* static_cast<unsigned char>(c) < 0x20, for a character of a C string
IsControl(c) == \E i \in 1..31 : ControlChars[i] = c

\* static_cast<int>(c) of a control character
ControlCode(c) == CHOOSE i \in 1..31 : ControlChars[i] = c

\* lines 141-143
indent(level) == Str([i \in 1..(level * 2) |-> " "])

\* lines 129-132: std::hex, std::setfill('0'), std::setw(4)
Hex4(n) == Str([i \in 1..(4 - Len(HexStr(n))) |-> "0"]) \o HexStr(n)

\* lines 104-134: one character of escapeString
EscapeChar(c) ==
    CASE c = "\"" -> "\\\""
      [] c = "\\" -> "\\\\"
      [] c = ControlChars[8] -> "\\b"
      [] c = "\f" -> "\\f"
      [] c = "\n" -> "\\n"
      [] c = "\r" -> "\\r"
      [] c = "\t" -> "\\t"
      [] OTHER -> IF IsControl(c) THEN "\\u" \o Hex4(ControlCode(c)) ELSE c

\* escapeString without the case of the backslash
escapeStringKeepsBackslash(str) ==
    Str([i \in 1..Len(str) |->
            IF SubSeq(str, i, i) = "\\" THEN "\\" ELSE EscapeChar(SubSeq(str, i, i))])

\* lines 100-139
escapeString(str) == Str([i \in 1..Len(str) |-> EscapeChar(SubSeq(str, i, i))])

\* lines 164-173: the values of an array, separated
RECURSIVE FormatValues(_, _)
FormatValues(values, sp) ==
    IF values = <<>> THEN ""
    ELSE "\"" \o escapeString(Head(values)) \o "\""
         \o (IF Tail(values) = <<>> THEN "" ELSE "," \o sp \o FormatValues(Tail(values), sp))

\* formatAttribute that writes an array whenever there is a value
formatAttributeAlwaysArray(attr, prettyPrint, indentLevel) ==
    indent(IF prettyPrint THEN indentLevel ELSE 0)
    \o "\"" \o escapeString(attr.name) \o "\":" \o (IF prettyPrint THEN " " ELSE "")
    \o (IF attr.values = <<>> THEN "null"
        ELSE "[" \o FormatValues(attr.values, IF prettyPrint THEN " " ELSE "") \o "]")

\* lines 145-177
formatAttribute(attr, prettyPrint, indentLevel) ==
    indent(IF prettyPrint THEN indentLevel ELSE 0)
    \o "\"" \o escapeString(attr.name) \o "\":" \o (IF prettyPrint THEN " " ELSE "")
    \o (IF Len(attr.values) = 1 THEN "\"" \o escapeString(attr.values[1]) \o "\""
        ELSE IF attr.values = <<>> THEN "null"
        ELSE "[" \o FormatValues(attr.values, IF prettyPrint THEN " " ELSE "") \o "]")

\* lines 45-54: the attributes, separated
RECURSIVE FormatAttributes(_, _, _)
FormatAttributes(attributes, prettyPrint, nl) ==
    IF attributes = <<>> THEN ""
    ELSE formatAttribute(Head(attributes), prettyPrint, 2)
         \o (IF Tail(attributes) = <<>> THEN ""
             ELSE "," \o nl \o FormatAttributes(Tail(attributes), prettyPrint, nl))

\* lines 22-58, with nl, sp and indent(prettyPrint ? 1 : 0) computed
FormatWith(res, prettyPrint, nl, sp, ind) ==
    "{" \o nl
    \o ind \o "\"success\":" \o sp \o (IF res.success THEN "true" ELSE "false") \o "," \o nl
    \o ind \o "\"type\":" \o sp \o "\"" \o escapeString(res.type) \o "\"," \o nl
    \o ind \o "\"identifier\":" \o sp \o "\"" \o escapeString(res.identifier) \o "\"," \o nl
    \o (IF ~res.success /\ res.errorMessage # ""
        THEN ind \o "\"error\":" \o sp \o "\"" \o escapeString(res.errorMessage) \o "\","
             \o nl
        ELSE "")
    \o ind \o "\"attributes\":" \o sp \o "{" \o nl
    \o FormatAttributes(res.attributes, prettyPrint, nl)
    \o nl \o ind \o "}" \o nl
    \o "}"

\* lines 17-59
format(res, prettyPrint) ==
    FormatWith(res, prettyPrint, IF prettyPrint THEN "\n" ELSE "",
               IF prettyPrint THEN " " ELSE "", indent(IF prettyPrint THEN 1 ELSE 0))

(***************************************************************************)
(* main and parseArgs.  argv holds argv[1] to argv[argc - 1]; the modes    *)
(* Process, File and Port are written "process", "file" and "port".        *)
(***************************************************************************)
\* lines 88-104: the members of CommandLineArgs as declared
CommandLineArgs ==
    [mode |-> "None", identifier |-> "", protocol |-> "Both", prettyPrint |-> TRUE,
     valid |-> TRUE, errorMessage |-> ""]

\* lines 186-189: the argument is none of the options
UnknownArgument(args, arg) ==
    [args EXCEPT !.valid = FALSE, !.errorMessage = "Unknown argument: " \o arg]

\* lines 160-179: --protocol and its value
ProtocolOption(args, proto) ==
    CASE proto = "tcp" -> [args EXCEPT !.protocol = "TCP"]
      [] proto = "udp" -> [args EXCEPT !.protocol = "UDP"]
      [] proto = "both" -> [args EXCEPT !.protocol = "Both"]
      [] OTHER -> [args EXCEPT !.valid = FALSE,
                               !.errorMessage = "Invalid protocol. Use: tcp, udp, or both"]

\* the option of argv[i], for the options that take a value
ValueOptions ==
    [x \in {"-p", "--process", "-f", "--file", "-P", "--port", "--protocol"} |->
        CASE x \in {"-p", "--process"} ->
               [mode |-> "process", missing |-> "Missing PID argument for --process"]
          [] x \in {"-f", "--file"} ->
               [mode |-> "file", missing |-> "Missing path argument for --file"]
          [] x \in {"-P", "--port"} ->
               [mode |-> "port", missing |-> "Missing port argument for --port"]
          [] OTHER ->
               [mode |-> "None", missing |-> "Missing protocol argument for --protocol"]]

\* lines 114-190: the loop from argv[i] on, and lines 192-197 after it
RECURSIVE ParseArgsFrom(_, _)
ParseArgsFrom(av, args) ==
    IF av = <<>>
    THEN IF args.mode = "None"
         THEN [args EXCEPT !.valid = FALSE,
                           !.errorMessage =
                               "No operation specified. Use --process, --file, or --port"]
         ELSE args
    ELSE IF Head(av) \in {"-h", "--help"} THEN [args EXCEPT !.mode = "Help"]
    ELSE IF Head(av) \in {"-v", "--version"} THEN [args EXCEPT !.mode = "Version"]
    ELSE IF Head(av) \in DOMAIN ValueOptions
         THEN IF Len(av) < 2
              THEN [args EXCEPT !.valid = FALSE,
                                !.errorMessage = ValueOptions[Head(av)].missing]
              ELSE IF Head(av) = "--protocol"
                   THEN IF ProtocolOption(args, av[2]).valid
                        THEN ParseArgsFrom(Drop(av, 2), ProtocolOption(args, av[2]))
                        ELSE ProtocolOption(args, av[2])
                   ELSE ParseArgsFrom(Drop(av, 2),
                                      [args EXCEPT !.mode = ValueOptions[Head(av)].mode,
                                                   !.identifier = av[2]])
    ELSE IF Head(av) = "--compact"
         THEN ParseArgsFrom(Tail(av), [args EXCEPT !.prettyPrint = FALSE])
    ELSE UnknownArgument(args, Head(av))

\* lines 106-198
parseArgs(av) ==
    IF av = <<>> THEN [CommandLineArgs EXCEPT !.mode = "Help"]
    ELSE ParseArgsFrom(av, CommandLineArgs)

\* main returning 0 whatever the Result
ExitStatusAlwaysZero(res) == 0

\* line 256
ExitStatus(res) == IF res.success THEN 0 ELSE 1

\* lines 202-249: the arguments are parsed; an error, --help and --version return at
\* once, and otherwise the collector of the mode is constructed and called
MainStart ==
    /\ pc = "main"
    /\ IF ~parseArgs(argv).valid
       THEN /\ exitCode' = 1
            /\ pc' = "exited"
            /\ UNCHANGED <<mode, identifier, m_protocol>>
       ELSE IF parseArgs(argv).mode \in {"Help", "Version"}
       THEN /\ exitCode' = 0
            /\ pc' = "exited"
            /\ UNCHANGED <<mode, identifier, m_protocol>>
       ELSE /\ mode' = parseArgs(argv).mode
            /\ identifier' = Chars(parseArgs(argv).identifier)
            /\ m_protocol' = parseArgs(argv).protocol
            /\ pc' = "start"
            /\ UNCHANGED exitCode
    /\ UNCHANGED <<longBits, port, pid, connections, output, calls, rowsPrinted, lstatBuf,
                   statBuf, pipe, lookups, argv, json, indexFile, result>>

\* lines 251-256: the Result is formatted and printed, and main returns
MainExit ==
    /\ pc = "done"
    /\ json' = format(result, parseArgs(argv).prettyPrint)
    /\ exitCode' = ExitStatus(result)
    /\ pc' = "exited"
    /\ UNCHANGED <<mode, identifier, m_protocol, longBits, port, pid, connections, output,
                   calls, rowsPrinted, lstatBuf, statBuf, pipe, lookups, argv, indexFile,
                   result>>

\* command lines: without arguments, with each kind of error, and with each query
ArgvSet ==
    {<<>>, <<"--help">>, <<"-v">>, <<"-p", "42", "-h">>,
     <<"--process">>, <<"-f">>, <<"--port">>, <<"-P", "22", "--protocol">>,
     <<"--frob">>, <<"--port", "22", "--frob">>, <<"22">>,
     <<"--port", "22", "--protocol", "icmp">>,
     <<"--compact">>, <<"--protocol", "tcp">>,
     <<"-p", "42">>, <<"--process", "0", "--compact">>,
     <<"--file", "/etc">>, <<"-f", "ln", "--compact">>, <<"-f", "">>,
     <<"--port", "22", "--protocol", "tcp">>, <<"-P", "22", "--compact", "--protocol", "udp">>,
     <<"--port", "x">>, <<"-p", "42", "--file", "ln">>}

InitMain ==
    /\ pc = "main"
    /\ argv \in ArgvSet
    /\ mode = "None"
    /\ identifier = <<>>
    /\ m_protocol = "Both"
    /\ longBits = 64      \* the width matters to parsePort and parsePid alone (SpecParse)
    /\ port = 0
    /\ pid = 0
    /\ connections = <<>>
    /\ output = <<>>
    /\ calls = <<>>
    /\ rowsPrinted = 0
    /\ lstatBuf = NoStat.buf
    /\ statBuf = NoStat.buf
    /\ pipe = <<>>
    /\ lookups = <<>>
    /\ json = ""
    /\ exitCode = -1
    /\ indexFile = <<>>
    /\ result = MetadataResult

NextMain ==
    \/ MainStart
    \/ Next
    \/ MainExit

SpecMain == InitMain /\ [][NextMain]_vars

(***************************************************************************)
(* JsonFormatter::format as a function of the Result: a Result is built by *)
(* calls of either overload of addAttribute and then formatted, pretty or  *)
(* compact.  calls records which overload added each attribute.            *)
(***************************************************************************)
MaxValues == 2

\* values with a quote, a backslash and control characters (U+0001, newline,
\* backspace, U+001F)
JsonValues ==
    {"a\"b\\", ControlChars[1] \o "\n" \o ControlChars[8] \o ControlChars[31] \o "z"}

\* the name of the attribute added first, second
JsonNames == <<"comm", "open\"files">>

\* types.h lines 63-65
addAttributeString(res, name, value) ==
    [res EXCEPT !.attributes = Append(@, Attr(name, value))]

\* types.h lines 72-74
addAttributeList(res, name, values) ==
    [res EXCEPT !.attributes = Append(@, AttrList(name, values))]

InitJson ==
    /\ pc = "build"
    /\ argv \in {<<"-p", "1">>, <<"-p", "1", "--compact">>}
    /\ mode = "process"
    /\ identifier = <<"1">>
    /\ m_protocol = "Both"
    /\ longBits = 64
    /\ port = 0
    /\ pid = 1
    /\ connections = <<>>
    /\ output = <<>>
    /\ calls = <<>>
    /\ rowsPrinted = 0
    /\ lstatBuf = NoStat.buf
    /\ statBuf = NoStat.buf
    /\ pipe = <<>>
    /\ lookups = <<>>
    /\ json = ""
    /\ exitCode = -1
    /\ indexFile = <<>>
    /\ result \in {[MetadataResult EXCEPT !.type = "process", !.identifier = "1",
                                          !.success = s, !.errorMessage = e] :
                     s \in BOOLEAN, e \in {"", "no \"x\""}}

AddString ==
    /\ pc = "build"
    /\ Len(result.attributes) < Len(JsonNames)
    /\ \E value \in JsonValues :
         result' = addAttributeString(result, JsonNames[Len(result.attributes) + 1], value)
    /\ calls' = Append(calls, OsCall("addAttribute(string)",
                                     JsonNames[Len(result.attributes) + 1], TRUE))
    /\ UNCHANGED <<pc, mode, identifier, m_protocol, longBits, port, pid, connections,
                   output, rowsPrinted, lstatBuf, statBuf, pipe, lookups, argv, json,
                   exitCode, indexFile>>

AddList ==
    /\ pc = "build"
    /\ Len(result.attributes) < Len(JsonNames)
    /\ \E values \in SeqsUpTo(JsonValues, MaxValues) :
         result' = addAttributeList(result, JsonNames[Len(result.attributes) + 1], values)
    /\ calls' = Append(calls, OsCall("addAttribute(vector)",
                                     JsonNames[Len(result.attributes) + 1], TRUE))
    /\ UNCHANGED <<pc, mode, identifier, m_protocol, longBits, port, pid, connections,
                   output, rowsPrinted, lstatBuf, statBuf, pipe, lookups, argv, json,
                   exitCode, indexFile>>

Format ==
    /\ pc = "build"
    /\ json' = format(result, parseArgs(argv).prettyPrint)
    /\ pc' = "formatted"
    /\ UNCHANGED <<mode, identifier, m_protocol, longBits, port, pid, connections, output,
                   calls, rowsPrinted, lstatBuf, statBuf, pipe, lookups, argv, exitCode,
                   indexFile, result>>

NextJson ==
    \/ AddString
    \/ AddList
    \/ Format

SpecJson == InitJson /\ [][NextJson]_vars

(***************************************************************************)
(* parseNetstatOutput alone, over outputs of at most MaxTokenLines lines   *)
(* around its two tests of tokens.size(), lines 222 and 232.               *)
(***************************************************************************)
\* most lines of such an output
MaxTokenLines == 2

\* a row without and with a socket address; the second without its state column,
\* without its Send-Q column; a row of five columns; a banner line; an empty line
TokenLineSet(p) ==
    {JoinWith(<<<<"t", "c", "p", "4">>, <<"0">>, <<"0">>, <<"*", ".">> \o DecChars(p),
                <<"*", ".", "*">>, ListenChars>>, " "),
     JoinWith(<<SocketHandle, <<"t", "c", "p", "4">>, <<"0">>, <<"0">>,
                <<"*", ".">> \o DecChars(p), <<"*", ".", "*">>, ListenChars>>, " "),
     JoinWith(<<SocketHandle, <<"u", "d", "p", "4">>, <<"0">>, <<"0">>,
                <<"*", ".">> \o DecChars(p), <<"*", ".", "*">>>>, " "),
     JoinWith(<<SocketHandle, <<"t", "c", "p", "4">>, <<"0">>,
                <<"*", ".">> \o DecChars(p), <<"*", ".", "*">>, ListenChars>>, " "),
     JoinWith(<<<<"u", "d", "p", "4">>, <<"0">>, <<"0">>, <<"*", ".">> \o DecChars(p),
                <<"*", ".", "*">>>>, " "),
     JoinWith(<<<<"A", "c", "t", "i", "v", "e">>, <<"I", "n", "t", "e", "r", "n", "e", "t">>,
                <<"c", "o", "n", "n", "e", "c", "t", "i", "o", "n", "s">>>>, " "),
     <<>>}

InitTokens ==
    /\ pc \in {PassOf(protocol) : protocol \in PassTags}
    /\ mode = "port"
    /\ port \in TargetPorts
    /\ identifier = DecChars(port)
    /\ m_protocol = "Both"
    /\ longBits \in {32, 64}
    /\ pid = 0
    /\ connections = <<>>
    /\ output \in {Unlines(ls) : ls \in SeqsUpTo(TokenLineSet(port), MaxTokenLines)}
    /\ calls = <<>>
    /\ rowsPrinted = 0
    /\ lstatBuf = NoStat.buf
    /\ statBuf = NoStat.buf
    /\ pipe = <<>>
    /\ lookups = <<>>
    /\ argv = <<>>
    /\ json = ""
    /\ exitCode = -1
    /\ indexFile = <<>>
    /\ result = [MetadataResult EXCEPT !.type = "port", !.identifier = Str(identifier)]

NextTokens == ParseOutput

SpecTokens == InitTokens /\ [][NextTokens]_vars

(***************************************************************************)
(* What the claims speak of.                                               *)
(***************************************************************************)
\* cs is a base-10 integer as strtol reads one: white space, an optional sign, digits
IntegerSyntax(cs) ==
    \E ws \in 0..Len(cs), sg \in 0..1 :
        /\ \A i \in 1..ws : IsSpace(cs[i])
        /\ sg = 1 => (ws < Len(cs) /\ cs[ws + 1] \in {"+", "-"})
        /\ ws + sg < Len(cs)
        /\ \A i \in (ws + sg + 1)..Len(cs) : IsDigit(cs[i])

\* the digits of cs without leading zeros, as numbers
IntegerDigits(cs) ==
    StripZeros([i \in 1..Cardinality({j \in 1..Len(cs) : IsDigit(cs[j])}) |->
                  DigitVal(cs[Len(cs) - Cardinality({j \in 1..Len(cs) : IsDigit(cs[j])}) + i])])

IsNegative(cs) == \E i \in 1..Len(cs) : cs[i] = "-"

\* cs is a base-10 integer v with 1 <= v <= hi
IntegerIn(cs, hi) ==
    /\ IntegerSyntax(cs)
    /\ ~IsNegative(cs)
    /\ IntegerDigits(cs) # <<>>
    /\ ~MagLess(NatDigits(hi), IntegerDigits(cs))

\* the identifier is not one the selected collector can query
Malformed ==
    CASE mode = "port" -> ~IntegerIn(identifier, UINT16_MAX)
      [] mode = "process" -> ~IntegerIn(identifier, INT32_MAX)
      [] OTHER -> identifier = <<>>

\* collect has returned a failure
Rejected == pc = "done" /\ ~result.success

AttrNames == {result.attributes[i].name : i \in DOMAIN result.attributes}

HasAttr(name, value) ==
    \E i \in DOMAIN result.attributes : result.attributes[i] = Attr(name, value)

ConnKey(i, field) == "connection_" \o NumStr(i) \o "_" \o field

\* strictly increasing maps from 1..k into 1..n
IncreasingMaps(k, n) ==
    {f \in [1..k -> 1..n] : \A i \in 1..(k - 1) : f[i] < f[i + 1]}

\* token is a socket handle: more than ten characters, all hexadecimal digits
SocketHandleToken(token) ==
    /\ Len(token) >= 11
    /\ \A i \in 1..Len(token) :
         IsDigit(token[i]) \/ token[i] \in {"a", "b", "c", "d", "e", "f",
                                            "A", "B", "C", "D", "E", "F"}

\* the number of columns before the protocol column of a row with tokens toks
HandleColumns(toks) == IF toks # <<>> /\ SocketHandleToken(toks[1]) THEN 1 ELSE 0

\* connection c carries the local, foreign and state columns of the row line
FromRow(c, line) ==
    LET toks == Tokenize(line)
        n    == HandleColumns(Tokenize(line)) + 6
    IN  /\ Len(toks) >= n
        /\ c.state = Str(toks[n])
        /\ Str(toks[n - 1]) \in {c.remoteAddress \o "." \o c.remotePort, c.remoteAddress}
        /\ Str(toks[n - 2]) = c.localAddress \o "." \o c.localPort

\* the characters of token after its last dot are an integer equal to p
PortTokenIs(token, p) ==
    /\ RFind(token, ".") # 0
    /\ IntegerSyntax(Drop(token, RFind(token, ".")))
    /\ ~IsNegative(Drop(token, RFind(token, ".")))
    /\ IntegerDigits(Drop(token, RFind(token, "."))) = NatDigits(p)

\* the local or the foreign column of the row line names port p
RowNamesPort(line, p) ==
    LET toks == Tokenize(line)
        n    == HandleColumns(Tokenize(line)) + 6
    IN  Len(toks) >= n /\ (PortTokenIs(toks[n - 2], p) \/ PortTokenIs(toks[n - 1], p))

\* the connections cs come, in order, from rows of out that satisfy Ok
InRowOrder(cs, out, Ok(_)) ==
    \E f \in IncreasingMaps(Len(cs), Len(SplitLines(out))) :
        \A k \in 1..Len(cs) :
            FromRow(cs[k], SplitLines(out)[f[k]]) /\ Ok(SplitLines(out)[f[k]])

AnyRow(line) == TRUE

NamesTargetPort(line) == RowNamesPort(line, port)

(***************************************************************************)
(* C1.  PortCollector.collect accepts the identifier exactly when it is a  *)
(* base-10 integer in 1..65535: "1" and "65535" are accepted, and "0",     *)
(* "65536", a negative value, a value too large for long, the empty string *)
(* and a number followed by another character give the error Result with   *)
(* the message "Invalid port number: <identifier>".                        *)
(***************************************************************************)
C1_PortAcceptedInRange ==
    (mode = "port" /\ pc # "start") =>
        /\ Rejected <=> ~IntegerIn(identifier, UINT16_MAX)
        /\ Rejected => /\ result.errorMessage = "Invalid port number: " \o Str(identifier)
                       /\ result.attributes = <<>>
        /\ ~Rejected => NatDigits(port) = IntegerDigits(identifier)
        /\ identifier \in {<<"1">>, <<"6", "5", "5", "3", "5">>} => ~Rejected
        /\ identifier \in {<<"0">>, <<"6", "5", "5", "3", "6">>, <<"-", "1">>, <<>>,
                           <<"1", "x">>, <<"6", "5", "5", "3", "5", "x">>} => Rejected
        /\ (Len(identifier) = 20 /\ \A i \in 1..20 : identifier[i] = "9") => Rejected

C1_Witness ==
    /\ mode = "port"
    /\ pc \notin {"start", "done"}
    /\ identifier = <<"6", "5", "5", "3", "5">>
    /\ port = UINT16_MAX

(***************************************************************************)
(* C2.  ProcessCollector.parsePid accepts the identifier exactly when it   *)
(* is a base-10 integer v with 1 <= v <= INT32_MAX: PID 0 and every value  *)
(* above the maximum are rejected, and "007" is PID 7.                     *)
(***************************************************************************)
C2_PidAcceptedInRange ==
    (mode = "process" /\ pc # "start") =>
        /\ Rejected <=> ~IntegerIn(identifier, INT32_MAX)
        /\ ~Rejected => NatDigits(pid) = IntegerDigits(identifier)
        /\ identifier = <<"0">> => Rejected
        /\ identifier = <<"0", "0", "7">> => (~Rejected /\ pid = 7)

(* C4.  Every returned Result is a failure (success false, a non-empty     *)
(* errorMessage, no attribute) or a success (success true, an empty        *)
(* errorMessage).                                                          *)
(***************************************************************************)
C4_FailureOrSuccess ==
    pc = "done" =>
        \/ ~result.success /\ result.errorMessage # "" /\ result.attributes = <<>>
        \/ result.success /\ result.errorMessage = ""

C4_Witness ==
    /\ pc = "done"
    /\ mode = "file"
    /\ calls # <<>>
    /\ ~result.success
    /\ result.errorMessage # ""

(***************************************************************************)
(* C5.  Every Result has the type of its collector ("process", "file" or   *)
(* "port") and the identifier that was queried, the error Results that     *)
(* createErrorResult builds included.                                      *)
(***************************************************************************)
C5_TypeAndIdentifier ==
    pc = "done" => (result.type = mode /\ result.identifier = Str(identifier))

(***************************************************************************)
(* C6.  success is false only for an invalid identifier or a failed        *)
(* primary existence check (the first getprocs64, the lstat); a failure of *)
(* any later step leaves success true.                                     *)
(***************************************************************************)
PrimaryCheckFailed ==
    /\ calls # <<>>
    /\ calls[1].call \in {"getprocs64", "lstat64"}
    /\ ~calls[1].ok

C6_FailureOnlyFromPrimary ==
    pc = "done" => (~result.success <=> (Malformed \/ PrimaryCheckFailed))

C6_Witness ==
    /\ pc = "done"
    /\ mode = "process"
    /\ result.success
    /\ Len(calls) > 1
    /\ \A i \in 2..Len(calls) : ~calls[i].ok

(***************************************************************************)
(* C7.  For a valid port with no matching row in any pass (every command   *)
(* failing or printing nothing included) the Result is a success with      *)
(* exactly the attributes status = "no_connections_found" and              *)
(* port = <identifier>, and no num_connections or connection_* attribute.  *)
(***************************************************************************)
C7_NoConnections ==
    (pc = "done" /\ mode = "port" /\ ~Malformed /\ connections = <<>>) =>
        /\ result.success
        /\ result.attributes = <<Attr("status", "no_connections_found"),
                                 Attr("port", Str(identifier))>>

C7_Witness ==
    /\ pc = "done"
    /\ mode = "port"
    /\ m_protocol = "Both"
    /\ result.success
    /\ connections = <<>>
    /\ Len(calls) = 4
    /\ \A i \in 1..Len(calls) : ~calls[i].ok

(***************************************************************************)
(* C8.  With n >= 1 connections the Result has num_connections = n and,    *)
(* for each index i in 0..n-1 and for no other index, the six attributes   *)
(* connection_<i>_protocol, _local_address, _local_port, _remote_address,  *)
(* _remote_port and _state; connection_<i>_pid is there only when a        *)
(* positive PID was recovered, _process only when a name was, _user only   *)
(* when a user was.                                                        *)
(***************************************************************************)
C8_ConnectionAttributes ==
    (pc = "done" /\ mode = "port" /\ connections # <<>>) =>
        /\ result.success
        /\ HasAttr("port", Str(identifier))
        /\ HasAttr("num_connections", NumStr(Len(connections)))
        /\ \A i \in 0..(Len(connections) - 1) :
             /\ HasAttr(ConnKey(i, "protocol"), connections[i + 1].protocol)
             /\ HasAttr(ConnKey(i, "local_address"), connections[i + 1].localAddress)
             /\ HasAttr(ConnKey(i, "local_port"), connections[i + 1].localPort)
             /\ HasAttr(ConnKey(i, "remote_address"), connections[i + 1].remoteAddress)
             /\ HasAttr(ConnKey(i, "remote_port"), connections[i + 1].remotePort)
             /\ HasAttr(ConnKey(i, "state"), connections[i + 1].state)
             /\ IF connections[i + 1].pid > 0
                THEN HasAttr(ConnKey(i, "pid"), NumStr(connections[i + 1].pid))
                ELSE ConnKey(i, "pid") \notin AttrNames
             /\ IF connections[i + 1].processName # ""
                THEN HasAttr(ConnKey(i, "process"), connections[i + 1].processName)
                ELSE ConnKey(i, "process") \notin AttrNames
             /\ IF connections[i + 1].user # ""
                THEN HasAttr(ConnKey(i, "user"), connections[i + 1].user)
                ELSE ConnKey(i, "user") \notin AttrNames
        /\ AttrNames \subseteq
             {"port", "num_connections"}
             \cup {ConnKey(i, f) : i \in 0..(Len(connections) - 1),
                                   f \in {"protocol", "local_address", "local_port",
                                          "remote_address", "remote_port", "state",
                                          "pid", "process", "user"}}
        /\ Cardinality(AttrNames) = Len(result.attributes)

C8_Witness ==
    /\ pc = "done"
    /\ mode = "port"
    /\ Len(connections) = 2
    /\ connections[1].pid > 0
    /\ connections[2].pid = 0
    /\ connections[2].processName # ""
    /\ HasAttr("num_connections", "2")

(***************************************************************************)
(* C9.  Connection indices follow the order of the passes, TCP IPv4, TCP   *)
(* IPv6, UDP IPv4, UDP IPv6, and inside a pass the order of the rows; the  *)
(* filter TCP gives only tcp and tcp6 entries, UDP only udp and udp6, and  *)
(* Both can give all four.                                                 *)
(***************************************************************************)
PassRank(protocol) ==
    CASE protocol = "tcp" -> 1
      [] protocol = "tcp6" -> 2
      [] protocol = "udp" -> 3
      [] protocol = "udp6" -> 4
      [] OTHER -> 0

\* the tag of the pass that runs at position p of collect
PassTag(p) ==
    CASE p \in {"tcp4", "tcp4alt"} -> "tcp"
      [] p = "tcp6" -> "tcp6"
      [] p \in {"udp4", "udp4alt"} -> "udp"
      [] p = "udp6" -> "udp6"
      [] OTHER -> ""

PassOrder ==
    /\ \A i, j \in 1..Len(connections) :
         i < j => PassRank(connections[i].protocol) <= PassRank(connections[j].protocol)
    /\ \A i \in 1..Len(connections) :
         /\ PassRank(connections[i].protocol) > 0
         /\ m_protocol = "TCP" => connections[i].protocol \in {"tcp", "tcp6"}
         /\ m_protocol = "UDP" => connections[i].protocol \in {"udp", "udp6"}

\* a step appends the connections of one pass, tagged with it, in the order of its rows
AppendsInRowOrder ==
    /\ Len(connections') >= Len(connections)
    /\ SubSeq(connections', 1, Len(connections)) = connections
    /\ \A k \in (Len(connections) + 1)..Len(connections') :
         connections'[k].protocol = PassTag(pc)
    /\ Len(connections') > Len(connections) =>
         InRowOrder(SubSeq(connections', Len(connections) + 1, Len(connections')),
                    output', AnyRow)

C9_PassAndRowOrder == [](PassOrder) /\ [][AppendsInRowOrder]_vars

C9_Witness ==
    /\ pc = "done"
    /\ m_protocol = "Both"
    /\ Len(connections) = 2
    /\ connections[1].protocol = "tcp6"
    /\ connections[2].protocol = "udp"

(***************************************************************************)
(* C10.  For the queried port p and every sequence of rows, each           *)
(* connection that is kept comes from a row whose local or foreign port    *)
(* token, read as an integer, equals p; a row where neither does gives no  *)
(* connection.                                                             *)
(***************************************************************************)
C10_KeptRowsNamePort ==
    pc = "parsed" => InRowOrder(connections, output, NamesTargetPort)

C10_Witness ==
    /\ pc = "parsed"
    /\ Len(connections) = 1
    /\ connections[1].localPort # NumStr(port)
    /\ connections[1].remotePort = NumStr(port)

(***************************************************************************)
(* C11.  Every kept line gives a connection whose protocol is the tag of   *)
(* the pass, not the protocol column of the line; whose local address and  *)
(* port are the local token split at its last dot; whose remote address    *)
(* and port are the foreign token split at its last dot, or the whole      *)
(* token and "*" when it has no dot; and whose state is the state column.  *)
(* The line "f1000e0001891398 tcp4 0 0 *.22 *.* LISTEN", parsed for port   *)
(* 22 in the tcp pass, gives exactly one connection, with protocol "tcp",  *)
(* local port "22", state "LISTEN" and remote port "*".                    *)
(***************************************************************************)
\* the characters of token before and after position dot
Before(token, dot) == Str(SubSeq(token, 1, dot - 1))

After(token, dot) == Str(SubSeq(token, dot + 1, Len(token)))

\* c has the tag and the fields of the columns local, foreign and state
FieldsOf(c, tag, local, foreign, state) ==
    /\ c.protocol = tag
    /\ RFind(local, ".") # 0
    /\ c.localAddress = Before(local, RFind(local, "."))
    /\ c.localPort = After(local, RFind(local, "."))
    /\ RFind(foreign, ".") # 0 =>
          /\ c.remoteAddress = Before(foreign, RFind(foreign, "."))
          /\ c.remotePort = After(foreign, RFind(foreign, "."))
    /\ RFind(foreign, ".") = 0 => c.remoteAddress = Str(foreign) /\ c.remotePort = "*"
    /\ c.state = Str(state)

\* c is the connection of the row with tokens toks and h columns before the protocol
FieldsOfColumns(c, tag, toks, h) ==
    Len(toks) >= h + 6 /\ FieldsOf(c, tag, toks[h + 4], toks[h + 5], toks[h + 6])

FieldsOfRow(c, tag, line) ==
    FieldsOfColumns(c, tag, Tokenize(line), HandleColumns(Tokenize(line)))

ScenarioRow ==
    <<"f", "1", "0", "0", "0", "e", "0", "0", "0", "1", "8", "9", "1", "3", "9", "8", " ",
      "t", "c", "p", "4", " ", "0", " ", "0", " ", "*", ".", "2", "2", " ", "*", ".", "*",
      " ", "L", "I", "S", "T", "E", "N", "\n">>

\* a parse gives each connection the tag of its pass and the fields of its row
ParseGivesRowFields ==
    /\ \E f \in IncreasingMaps(Len(connections'), Len(SplitLines(output))) :
         \A k \in 1..Len(connections') :
            FieldsOfRow(connections'[k], PassTag(pc), SplitLines(output)[f[k]])
    /\ (output = ScenarioRow /\ port = 22 /\ pc = "tcp4") =>
         /\ Len(connections') = 1
         /\ connections'[1].protocol = "tcp"
         /\ connections'[1].localPort = "22"
         /\ connections'[1].state = "LISTEN"
         /\ connections'[1].remotePort = "*"

C11_FieldsFromRow == [][ParseGivesRowFields]_vars

C11_Witness ==
    /\ pc = "parsed"
    /\ output = ScenarioRow
    /\ port = 22
    /\ Len(connections) = 1
    /\ connections[1].protocol = "tcp"
    /\ connections[1].remotePort = "*"

(***************************************************************************)
(* C12.  The first token of a line is a socket handle exactly when it has  *)
(* more than ten characters and all of them are hexadecimal digits; then,  *)
(* and only then, the local, foreign and state columns are the tokens at   *)
(* positions 4, 5 and 6 (counted from 0) instead of 3, 4 and 5.  The       *)
(* classification is a function of the token alone.                        *)
(***************************************************************************)
\* the row with tokens toks and h columns before the protocol gives a connection for p
KeptColumns(toks, h, p) ==
    /\ Len(toks) >= h + 6
    /\ RFind(toks[h + 4], ".") # 0
    /\ PortTokenIs(toks[h + 4], p) \/ PortTokenIs(toks[h + 5], p)

KeptRow(line) == KeptColumns(Tokenize(line), HandleColumns(Tokenize(line)), port)

\* the rows of the parsed output
Rows == SplitLines(output)

\* the socket address test of the parser agrees with the description of a handle
HandleAgrees(toks) ==
    toks # <<>> => (IsSocketAddr(toks[1]) <=> SocketHandleToken(toks[1]))

\* the connections cs are those of the rows kept, in order
FromKeptRows(cs, kept) ==
    /\ Len(cs) = Len(kept)
    /\ \A k \in 1..Len(cs) : FromRow(cs[k], kept[k])

\* a parse keeps the rows whose columns at the shifted positions name the port
ParseShiftsColumns ==
    /\ \A i \in 1..Len(Rows) : HandleAgrees(Tokenize(Rows[i]))
    /\ FromKeptRows(connections', SelectSeq(Rows, KeptRow))

C12_HandleShiftsColumns == [][ParseShiftsColumns]_vars

C12_Witness ==
    /\ pc = "parsed"
    /\ Len(connections) = 1
    /\ Len(Tokenize(Rows[1])) = 7
    /\ Len(Tokenize(Rows[1])[1]) = 11
    /\ connections[1].state = "LISTEN"

(***************************************************************************)
(* C13.  The process correlation is attempted for a kept line only if the  *)
(* line carried a socket handle: a connection that comes from a line       *)
(* without one starts no correlation command and never has the pid,        *)
(* process or user attributes.                                             *)
(***************************************************************************)
\* the correlation commands among the calls cs
Correlations(cs) ==
    {i \in 1..Len(cs) :
        cs[i].arg \in {LsofCmd(port, tag) : tag \in {"tcp", "tcp6", "udp", "udp6"}}}

\* connection c comes from the row line and is not attributed unless line has a handle
FromRowWithHandle(c, line) ==
    /\ FromRow(c, line)
    /\ HandleColumns(Tokenize(line)) = 0 => (c.pid = 0 /\ c.processName = "" /\ c.user = "")

\* the rows f selects for the connections cs start as many correlations as have a handle
HandledRows(cs, lines, f) ==
    {k \in 1..Len(cs) : HandleColumns(Tokenize(lines[f[k]])) = 1}

CorrelatesHandledRows(cs, lines, started) ==
    \E f \in IncreasingMaps(Len(cs), Len(lines)) :
        /\ \A k \in 1..Len(cs) : FromRowWithHandle(cs[k], lines[f[k]])
        /\ Cardinality(HandledRows(cs, lines, f)) = started

\* a step starts one correlation for each connection it adds from a row with a handle
CorrelationOnlyWithHandle ==
    /\ Len(connections') >= Len(connections)
    /\ Len(calls') >= Len(calls)
    /\ CorrelatesHandledRows(
          SubSeq(connections', Len(connections) + 1, Len(connections')),
          IF Len(connections') > Len(connections) THEN SplitLines(output') ELSE <<>>,
          Cardinality(Correlations(calls')) - Cardinality(Correlations(calls)))

\* a connection without attribution has no pid, process or user attribute
UnattributedHasNoAttrs ==
    (pc = "done" /\ mode = "port") =>
        \A i \in 1..Len(connections) :
            (connections[i].pid = 0 /\ connections[i].processName = ""
                /\ connections[i].user = "") =>
                    AttrNames \cap {ConnKey(i - 1, "pid"), ConnKey(i - 1, "process"),
                                    ConnKey(i - 1, "user")} = {}

C13_CorrelationNeedsHandle ==
    [](UnattributedHasNoAttrs) /\ [][CorrelationOnlyWithHandle]_vars

C13_Witness ==
    /\ pc = "done"
    /\ mode = "port"
    /\ Len(connections) = 2
    /\ connections[1].pid > 0
    /\ connections[2].state = "ESTABLISHED"
    /\ connections[2].processName = ""
    /\ Cardinality(Correlations(calls)) = 1
    /\ ConnKey(1, "process") \notin AttrNames
    /\ HasAttr(ConnKey(1, "state"), "ESTABLISHED")

(***************************************************************************)
(* C14.  findProcessForPort skips the header row and takes the first       *)
(* remaining row that has at least three columns: the process name is      *)
(* column 1 and the user column 3; the pid is column 2 only when column 2  *)
(* is entirely numeric, otherwise the pid stays unknown while name and     *)
(* user are still set.  Later rows never override the first match.         *)
(***************************************************************************)
\* the rows of an lsof output that can attribute: no header, three columns or more
AttributingRows ==
    {i \in 1..Len(Rows) :
        /\ Len(Tokenize(Rows[i])) >= 3
        /\ Tokenize(Rows[i])[1] # <<"C", "O", "M", "M", "A", "N", "D">>}

\* the number that the numeric token cs writes
NumericValue(cs) == MagToNat(IntegerDigits(cs))

\* c is attributed from the columns toks
AttributedFrom(c, toks) ==
    /\ c.processName = Str(toks[1])
    /\ c.user = Str(toks[3])
    /\ c.pid = IF IntegerSyntax(toks[2]) THEN NumericValue(toks[2]) ELSE 0

C14_FirstRowAttributes ==
    (pc = "looked" /\ calls[1].ok) =>
        IF AttributingRows = {}
        THEN connections[1].pid = 0 /\ connections[1].processName = ""
                /\ connections[1].user = ""
        ELSE \E i \in AttributingRows :
                /\ \A j \in AttributingRows : i <= j
                /\ AttributedFrom(connections[1], Tokenize(Rows[i]))

C14_Witness ==
    /\ pc = "looked"
    /\ calls[1].ok
    /\ Cardinality(AttributingRows) = 2
    /\ connections[1].processName = "inetd"
    /\ connections[1].user = "root"
    /\ connections[1].pid = 0

(***************************************************************************)
(* C15.  The failure of the enumeration command of one transport and       *)
(* address family never prevents the remaining combinations from being     *)
(* queried: when the primary and the alternate IPv4 forms both fail for a  *)
(* transport, the IPv6 pass of that transport and the passes of the other  *)
(* transport are still run.                                                *)
(***************************************************************************)
\* the commands that the invocation has run
Commands == {calls[i].arg : i \in 1..Len(calls)}

\* the filter asks for transport t
Asked(t) == m_protocol = "Both" \/ (t = "tcp" /\ m_protocol = "TCP")
               \/ (t = "udp" /\ m_protocol = "UDP")

C15_FailureSkipsNothing ==
    (pc = "done" /\ mode = "port" /\ ~Malformed) =>
        \A t \in {"tcp", "udp"} :
            Asked(t) => (PrimaryCmd(t) \in Commands /\ Inet6Cmd(t) \in Commands)

(***************************************************************************)
(* C16.  Within one collect no enumeration command is retried: for each    *)
(* requested transport the primary IPv4 form is run exactly once, the      *)
(* alternate IPv4 form at most once and only right after the primary form  *)
(* failed (a non-zero exit with empty output, or no pipe), and the IPv6    *)
(* form at most once.                                                      *)
(***************************************************************************)
\* how many times the invocation has run cmd
TimesRun(cmd) == Cardinality({i \in 1..Len(calls) : calls[i].arg = cmd})

\* the subprocess outcome o is a failure as the claim describes one
FailedOutcome(o) == ~o.popen \/ (o.status # 0 /\ o.out = <<>>)

C16_NoRetry ==
    mode = "port" =>
        /\ \A t \in {"tcp", "udp"} :
              /\ TimesRun(PrimaryCmd(t)) <= 1
              /\ TimesRun(AlternateCmd(t)) <= 1
              /\ TimesRun(Inet6Cmd(t)) <= 1
              /\ ~Asked(t) => TimesRun(PrimaryCmd(t)) + TimesRun(AlternateCmd(t))
                                 + TimesRun(Inet6Cmd(t)) = 0
              /\ (pc = "done" /\ ~Malformed /\ Asked(t)) => TimesRun(PrimaryCmd(t)) = 1
              /\ \A i \in 1..Len(calls) :
                    calls[i].arg = AlternateCmd(t) =>
                        \E j \in 1..(i - 1) :
                            /\ calls[j].arg = PrimaryCmd(t)
                            /\ ~calls[j].ok
                            /\ \A k \in (j + 1)..(i - 1) : k \in Correlations(calls)
        /\ \A o \in ExecOutcomes({<<>>, output}) :
              executeCommand(o, <<>>).ok <=> ~FailedOutcome(o)

C16_Witness ==
    /\ pc = "done"
    /\ mode = "port"
    /\ m_protocol = "Both"
    /\ Len(connections) = 2
    /\ TimesRun(PrimaryCmd("tcp")) = 1
    /\ TimesRun(AlternateCmd("tcp")) = 1
    /\ TimesRun(Inet6Cmd("tcp")) = 1
    /\ TimesRun(PrimaryCmd("udp")) = 1
    /\ TimesRun(AlternateCmd("udp")) = 0

(***************************************************************************)
(* C17.  During one collect the socket-correlation tool is invoked at most *)
(* once for each pair of port and protocol tag, and every connection of    *)
(* the pair that carried a socket handle receives the same pid, process    *)
(* and user.                                                               *)
(***************************************************************************)
\* the rows with a socket address are the listening ones in the outputs of Spec
CarriedHandle(c) == c.state = "LISTEN"

SameAttribution(c, d) ==
    c.pid = d.pid /\ c.processName = d.processName /\ c.user = d.user

C17_OneCorrelationPerPair ==
    mode = "port" =>
        \A tag \in {"tcp", "tcp6", "udp", "udp6"} :
            /\ TimesRun(LsofCmd(port, tag)) <= 1
            /\ \A i, j \in 1..Len(connections) :
                  (connections[i].protocol = tag /\ connections[j].protocol = tag
                      /\ CarriedHandle(connections[i]) /\ CarriedHandle(connections[j]))
                    => SameAttribution(connections[i], connections[j])

(***************************************************************************)
(* C18.  Every pipe that executeCommand opens is closed and reaped before  *)
(* executeCommand returns, on every path: no pipe is open when a command   *)
(* has returned, and at most one is open at any time.                      *)
(***************************************************************************)
\* the pipes opened and the pipes closed so far
Opened == {i \in 1..Len(calls) : calls[i].call = "popen" /\ calls[i].ok}

Closed == {i \in 1..Len(calls) : calls[i].call = "pclose"}

C18_PipesClosed ==
    /\ Len(pipe) <= 1
    /\ Cardinality(Opened) = Cardinality(Closed) + Len(pipe)
    /\ pc \in {"exec", "returned"} => pipe = <<>>
    /\ \A i \in Returned :
          calls[i].ok => (calls[i - 1].call = "pclose" /\ calls[i - 1].arg = calls[i].arg)

C18_Witness ==
    /\ pc = "returned"
    /\ pipe = <<>>
    /\ Cardinality(Opened) = 2
    /\ Cardinality(Closed) = 2
    /\ calls[Len(calls)].call = "executeCommand"
    /\ ~calls[Len(calls)].ok

(***************************************************************************)
(* C19.  For a symbolic link whose target cannot be resolved, collect      *)
(* returns success with is_symlink = "true", symlink_broken = "true" and   *)
(* type = "symlink", and with the size, owner, mode and timestamps of the  *)
(* link itself; symlink_broken never appears without is_symlink; a link    *)
(* whose target cannot be read gives symlink_target = "unreadable", not an *)
(* error.                                                                  *)
(***************************************************************************)
\* the octal digits of m, most significant first, without leading zeros
OctalLen(m) == IF m < 8 THEN 1 ELSE IF m < 64 THEN 2 ELSE IF m < 512 THEN 3 ELSE 4

OctalChars(m) ==
    [i \in 1..OctalLen(m) |-> DigitChars[((m \div (8 ^ (OctalLen(m) - i))) % 8) + 1]]

\* the Result has the size, owner, mode and timestamps of the attributes buf
HasAttrsOf(buf) ==
    /\ HasAttr("size", NumStr(buf.st_size))
    /\ HasAttr("inode", NumStr(buf.st_ino))
    /\ HasAttr("uid", NumStr(buf.st_uid))
    /\ HasAttr("gid", NumStr(buf.st_gid))
    /\ HasAttr("mode_octal", "0" \o Str(OctalChars(buf.st_mode.perm)))
    /\ HasAttr("atime_epoch", NumStr(buf.st_atime))
    /\ HasAttr("mtime_epoch", NumStr(buf.st_mtime))
    /\ HasAttr("ctime_epoch", NumStr(buf.st_ctime))

\* the OS call name on the queried path had the outcome ok
Called(name, ok) ==
    \E i \in 1..Len(calls) : calls[i] = OsCall(name, Str(identifier), ok)

C19_BrokenSymlink ==
    (pc = "done" /\ mode = "file") =>
        /\ Called("stat64", FALSE) =>
              /\ result.success
              /\ HasAttr("is_symlink", "true")
              /\ HasAttr("symlink_broken", "true")
              /\ HasAttr("type", "symlink")
              /\ lstatBuf.st_mode.type = "S_IFLNK"
              /\ HasAttrsOf(lstatBuf)
        /\ "symlink_broken" \in AttrNames => "is_symlink" \in AttrNames
        /\ Called("readlink", FALSE) =>
              (result.success /\ HasAttr("symlink_target", "unreadable"))

C19_Witness ==
    /\ pc = "done"
    /\ mode = "file"
    /\ Called("stat64", FALSE)
    /\ Called("readlink", FALSE)
    /\ result.success
    /\ HasAttr("symlink_broken", "true")
    /\ HasAttr("symlink_target", "unreadable")
    /\ HasAttr("size", "11")
    /\ HasAttr("mode_octal", "04755")

(***************************************************************************)
(* C20.  For every permission value m in 0..07777 mode_symbolic is a       *)
(* string of 9 characters: positions 0, 1, 3, 4, 6 and 7 are the read and  *)
(* write letters of owner, group and others, or "-"; position 2 is "s"     *)
(* when setuid and owner-execute are both set, "S" when only setuid is,    *)
(* and "x" or "-" otherwise; position 5 is the same for setgid and         *)
(* group-execute; position 8 is "t" or "T" for the sticky bit with or      *)
(* without others-execute.  mode_octal is "0" followed by the octal digits *)
(* of m.  A regular file with mode 0644 gives mode_octal "0644",           *)
(* mode_symbolic "rw-r--r--" and type "regular".                           *)
(***************************************************************************)
\* the bit worth b (a power of two) is set in m
BitSet(m, b) == m % (2 * b) >= b

\* the letter for a read or write bit
Letter(m, b, c) == IF BitSet(m, b) THEN c ELSE "-"

\* the letter at an execute position: special is the letter of the set-id or sticky bit
ExecLetter(m, special, exec, lower, upper) ==
    CASE BitSet(m, special) /\ BitSet(m, exec) -> lower
      [] BitSet(m, special) /\ ~BitSet(m, exec) -> upper
      [] ~BitSet(m, special) /\ BitSet(m, exec) -> "x"
      [] OTHER -> "-"

\* the nine characters, positions 0 to 8 of the claim at indices 1 to 9
SymbolicChars(m) ==
    [i \in 1..9 |->
        CASE i = 3 -> ExecLetter(m, 2048, 64, "s", "S")
          [] i = 6 -> ExecLetter(m, 1024, 8, "s", "S")
          [] i = 9 -> ExecLetter(m, 512, 1, "t", "T")
          [] i % 3 = 1 -> Letter(m, 2 ^ (9 - i), "r")
          [] OTHER -> Letter(m, 2 ^ (9 - i), "w")]

C20_ModeStrings ==
    (pc = "done" /\ mode = "file" /\ result.success) =>
        /\ statBuf.st_mode.perm \in 0..PermMask
        /\ HasAttr("mode_symbolic", Str(SymbolicChars(statBuf.st_mode.perm)))
        /\ HasAttr("mode_octal", "0" \o Str(OctalChars(statBuf.st_mode.perm)))
        /\ \A i \in DOMAIN result.attributes :
              result.attributes[i].name = "mode_symbolic" =>
                  Len(result.attributes[i].values[1]) = 9
        /\ (statBuf.st_mode.perm = 420 /\ lstatBuf.st_mode.type = "S_IFREG") =>
              /\ HasAttr("mode_octal", "0644")
              /\ HasAttr("mode_symbolic", "rw-r--r--")
              /\ HasAttr("type", "regular")

C20_Witness ==
    /\ pc = "done"
    /\ result.success
    /\ statBuf.st_mode.perm = 420
    /\ HasAttr("mode_octal", "0644")
    /\ HasAttr("mode_symbolic", "rw-r--r--")
    /\ HasAttr("type", "regular")

(***************************************************************************)
(* C21: ProcessCollector::collect succeeds only when the first lookup of   *)
(* the process table returned exactly one entry and that entry's pid is    *)
(* the PID asked for.  In every other case (no entry, or the entry of      *)
(* another process) the Result has success = false, no attribute, and an   *)
(* error message containing "not found or access denied".                  *)
(***************************************************************************)
\* t occurs in s
Contains(s, t) == \E i \in 0..(Len(s) - Len(t)) : SubSeq(s, i + 1, i + Len(t)) = t

FoundAsked(g) == g.count = 1 /\ g.entry.pi_pid = pid

C21_LookupDecides ==
    (pc = "done" /\ lookups # <<>>) =>
        IF FoundAsked(lookups[1])
        THEN result.success
        ELSE /\ ~result.success
             /\ result.attributes = <<>>
             /\ Contains(result.errorMessage, "not found or access denied")

\* the table answered with the entry of the next process, and collect failed
C21_Witness ==
    /\ pc = "done"
    /\ lookups # <<>>
    /\ lookups[1].count = 1
    /\ lookups[1].entry.pi_pid = NextPid(pid)
    /\ ~result.success
    /\ result.errorMessage = "Process not found or access denied for PID: 42"

(***************************************************************************)
(* C22: a process whose container id is 0 has is_container = "false" and   *)
(* none of wpar_name, wpar_id, wpar_type.  A process whose container id is *)
(* not 0 has is_container = "true" and the name, id and decoded type       *)
(* (S -> system, A -> application, L -> versioned, anything else as it is) *)
(* of the first line of the index that has four fields and whose kernelId  *)
(* field (the fourth, read as atoi reads a number) is the container id;    *)
(* with no index file or no such line the three attributes are absent, and *)
(* the Result is a success all the same.                                   *)
(* C22_KeyedByFirstColumn is the same statement with the line chosen by    *)
(* its id field (the first), as the claim has it.                          *)
(***************************************************************************)
WparAttrs == {"wpar_name", "wpar_id", "wpar_type"}

TypeTags == [S |-> "system", A |-> "application", L |-> "versioned"]

DecodedType(tag) == IF tag \in DOMAIN TypeTags THEN TypeTags[tag] ELSE tag

\* the lines of the index that was read
IndexLines == IF indexFile = <<>> THEN <<>> ELSE SplitLines(indexFile[1])

\* the field cs, read as atoi reads it, is the number n
FieldIs(cs, n) ==
    LET body   == Drop(cs, SpaceRun(cs))
        digits == IF body # <<>> /\ Head(body) = "+" THEN Tail(body) ELSE body
    IN  /\ DigitRun(digits) > 0
        /\ NumericValue(SubSeq(digits, 1, DigitRun(digits))) = n

\* line i of the index has four fields and its field k is the container id
LineOf(i, k, cid) ==
    /\ Len(SplitOn(IndexLines[i], ":")) >= 4
    /\ FieldIs(SplitOn(IndexLines[i], ":")[k], cid)

\* the Result names the container that the fields f describe
NamesContainer(f) ==
    /\ HasAttr("wpar_name", Str(f[3]))
    /\ HasAttr("wpar_id", Str(f[1]))
    /\ HasAttr("wpar_type", DecodedType(Str(f[2])))

\* the container attributes are those of the first line whose field k is cid
ContainerBy(k, cid) ==
    IF cid = 0
    THEN HasAttr("is_container", "false") /\ WparAttrs \cap AttrNames = {}
    ELSE /\ HasAttr("is_container", "true")
         /\ IF \E i \in DOMAIN IndexLines : LineOf(i, k, cid)
            THEN \E i \in DOMAIN IndexLines :
                    /\ LineOf(i, k, cid)
                    /\ \A j \in 1..(i - 1) : ~LineOf(j, k, cid)
                    /\ NamesContainer(SplitOn(IndexLines[i], ":"))
            ELSE WparAttrs \cap AttrNames = {}

\* collect has returned and its last lookup, that of collectWparInfo, found the process
ContainerKnown ==
    /\ pc = "done"
    /\ Len(lookups) >= 3
    /\ FoundAsked(lookups[Len(lookups)])

C22_KeyedByFirstColumn ==
    ContainerKnown =>
        result.success /\ ContainerBy(1, lookups[Len(lookups)].entry.pi_cid)

C22_ContainerFromIndex ==
    ContainerKnown =>
        result.success /\ ContainerBy(4, lookups[Len(lookups)].entry.pi_cid)

\* the index line of the container is not the first line and its type tag is not decoded
C22_Witness ==
    /\ ContainerKnown
    /\ lookups[Len(lookups)].entry.pi_cid = 2
    /\ HasAttr("is_container", "true")
    /\ HasAttr("wpar_name", "raw")
    /\ HasAttr("wpar_id", "5")
    /\ HasAttr("wpar_type", "X")

(***************************************************************************)
(* Reading JSON text (RFC 8259), for the claims about the formatter's      *)
(* output.  A value is [kind, str, items, members]: kind is "string",      *)
(* "array", "object", "null", "true" or "false"; members are [name, value] *)
(* in the order of the text.                                               *)
(***************************************************************************)
JVal(kind, str, items, members) ==
    [kind |-> kind, str |-> str, items |-> items, members |-> members]

JString(str) == JVal("string", str, <<>>, <<>>)

JArray(items) == JVal("array", "", items, <<>>)

JNull == JVal("null", "", <<>>, <<>>)

JFail == [ok |-> FALSE, v |-> JNull, next |-> 0]

JOk(v, next) == [ok |-> TRUE, v |-> v, next |-> next]

RECURSIVE JSkip(_, _)
JSkip(cs, i) ==
    IF i <= Len(cs) /\ cs[i] \in {" ", "\n", "\t", "\r"} THEN JSkip(cs, i + 1) ELSE i

JHexDigits == <<"0", "1", "2", "3", "4", "5", "6", "7", "8", "9",
                "a", "b", "c", "d", "e", "f">>

JHexUpper == <<"0", "1", "2", "3", "4", "5", "6", "7", "8", "9",
               "A", "B", "C", "D", "E", "F">>

JIsHex(c) == \E d \in 1..16 : c \in {JHexDigits[d], JHexUpper[d]}

JHexVal(c) == (CHOOSE d \in 1..16 : c \in {JHexDigits[d], JHexUpper[d]}) - 1

\* the character that the two-character escape \e stands for
JEscapes ==
    [e \in {"\"", "\\", "/", "b", "f", "n", "r", "t"} |->
        CASE e = "b" -> ControlChars[8]
          [] e = "f" -> "\f"
          [] e = "n" -> "\n"
          [] e = "r" -> "\r"
          [] e = "t" -> "\t"
          [] OTHER -> e]

\* the code that \uXXXX at cs[i..i+5] writes, or -1
JUnicode(cs, i) ==
    IF i + 5 <= Len(cs) /\ \A k \in 2..5 : JIsHex(cs[i + k])
    THEN JHexVal(cs[i + 2]) * 4096 + JHexVal(cs[i + 3]) * 256
         + JHexVal(cs[i + 4]) * 16 + JHexVal(cs[i + 5])
    ELSE -1

\* the rest of a string from cs[i] on, after the characters acc
RECURSIVE JChars(_, _, _)
JChars(cs, i, acc) ==
    IF i > Len(cs) THEN JFail
    ELSE IF cs[i] = "\"" THEN JOk(JString(acc), i + 1)
    ELSE IF cs[i] = "\\"
         THEN IF i + 1 > Len(cs) THEN JFail
              ELSE IF cs[i + 1] \in DOMAIN JEscapes
                   THEN JChars(cs, i + 2, acc \o JEscapes[cs[i + 1]])
              ELSE IF cs[i + 1] = "u" /\ JUnicode(cs, i) \in 1..31
                   THEN JChars(cs, i + 6, acc \o ControlChars[JUnicode(cs, i)])
              ELSE JFail
    ELSE IF IsControl(cs[i]) THEN JFail
    ELSE JChars(cs, i + 1, acc \o cs[i])

JLiteral(cs, i, word) ==
    i + Len(word) - 1 <= Len(cs) /\ Str(SubSeq(cs, i, i + Len(word) - 1)) = word

RECURSIVE JValue(_, _)
RECURSIVE JItems(_, _, _)
RECURSIVE JMembers(_, _, _)

\* after an item or member ending before cs[i]: the separator or the closing bracket
JAfter(cs, i, close) ==
    IF JSkip(cs, i) > Len(cs) THEN "fail"
    ELSE IF cs[JSkip(cs, i)] = "," THEN "more"
    ELSE IF cs[JSkip(cs, i)] = close THEN "end"
    ELSE "fail"

JItemsAfter(cs, r, acc) ==
    IF ~r.ok THEN JFail
    ELSE CASE JAfter(cs, r.next, "]") = "more" ->
                JItems(cs, JSkip(cs, r.next) + 1, Append(acc, r.v))
           [] JAfter(cs, r.next, "]") = "end" ->
                JOk(JArray(Append(acc, r.v)), JSkip(cs, r.next) + 1)
           [] OTHER -> JFail

JItems(cs, i, acc) == JItemsAfter(cs, JValue(cs, i), acc)

JMemberAfter(cs, name, r, acc) ==
    IF ~r.ok THEN JFail
    ELSE CASE JAfter(cs, r.next, "}") = "more" ->
                JMembers(cs, JSkip(cs, r.next) + 1,
                         Append(acc, [name |-> name, value |-> r.v]))
           [] JAfter(cs, r.next, "}") = "end" ->
                JOk(JVal("object", "", <<>>, Append(acc, [name |-> name, value |-> r.v])),
                    JSkip(cs, r.next) + 1)
           [] OTHER -> JFail

JMemberNamed(cs, n, acc) ==
    IF ~n.ok \/ JSkip(cs, n.next) > Len(cs) THEN JFail
    ELSE IF cs[JSkip(cs, n.next)] # ":" THEN JFail
    ELSE JMemberAfter(cs, n.v.str, JValue(cs, JSkip(cs, n.next) + 1), acc)

JMembers(cs, i, acc) ==
    IF JSkip(cs, i) > Len(cs) THEN JFail
    ELSE IF cs[JSkip(cs, i)] # "\"" THEN JFail
    ELSE JMemberNamed(cs, JChars(cs, JSkip(cs, i) + 1, ""), acc)

JValueAt(cs, j) ==
    IF j > Len(cs) THEN JFail
    ELSE CASE cs[j] = "\"" -> JChars(cs, j + 1, "")
           [] cs[j] = "[" ->
                IF JAfter(cs, j + 1, "]") = "end"
                THEN JOk(JArray(<<>>), JSkip(cs, j + 1) + 1)
                ELSE JItems(cs, j + 1, <<>>)
           [] cs[j] = "{" ->
                IF JAfter(cs, j + 1, "}") = "end"
                THEN JOk(JVal("object", "", <<>>, <<>>), JSkip(cs, j + 1) + 1)
                ELSE JMembers(cs, j + 1, <<>>)
           [] JLiteral(cs, j, "null") -> JOk(JNull, j + 4)
           [] JLiteral(cs, j, "true") -> JOk(JVal("true", "", <<>>, <<>>), j + 4)
           [] JLiteral(cs, j, "false") -> JOk(JVal("false", "", <<>>, <<>>), j + 5)
           [] OTHER -> JFail

JValue(cs, i) == JValueAt(cs, JSkip(cs, i))

\* the whole text is one JSON value
JDocument(cs, r) == r.ok /\ JSkip(cs, r.next) = Len(cs) + 1

\* the text that main printed, read as JSON
Parsed == JValue(Chars(json), 1)

Names(members) == [i \in DOMAIN members |-> members[i].name]

(***************************************************************************)
(* C23: the text that format returns is a JSON object whose members are    *)
(* success, type, identifier, then error exactly when success is false and *)
(* errorMessage is not empty, then attributes, an object with one member   *)
(* for each attribute of the Result in the order they were added: a string *)
(* for an attribute of exactly one value, null for one without a value,    *)
(* and for one of two or more values an array of strings, the values in    *)
(* the order of the list.                                                  *)
(***************************************************************************)
HasError == ~result.success /\ result.errorMessage # ""

\* the member value v renders the attribute attr by its number of values
RendersByCount(v, attr) ==
    CASE Len(attr.values) = 1 -> v.kind = "string"
      [] Len(attr.values) = 0 -> v = JNull
      [] OTHER -> /\ v.kind = "array"
                  /\ Len(v.items) = Len(attr.values)
                  /\ \A k \in DOMAIN v.items : v.items[k] = JString(attr.values[k])

\* the attributes object has the attributes of the Result, in their order
RendersAttributes(obj) ==
    /\ obj.kind = "object"
    /\ Names(obj.members) = [i \in DOMAIN result.attributes |-> result.attributes[i].name]
    /\ \A i \in DOMAIN obj.members : RendersByCount(obj.members[i].value, result.attributes[i])

RendersResult(doc) ==
    /\ doc.kind = "object"
    /\ Names(doc.members) = <<"success", "type", "identifier">>
                            \o (IF HasError THEN <<"error">> ELSE <<>>)
                            \o <<"attributes">>
    /\ doc.members[1].value.kind = (IF result.success THEN "true" ELSE "false")
    /\ HasError => doc.members[4].value = JString(result.errorMessage)
    /\ RendersAttributes(doc.members[Len(doc.members)].value)

C23_RenderedByCount ==
    pc = "formatted" => JDocument(Chars(json), Parsed) /\ RendersResult(Parsed.v)

\* a failed Result with a message, whose first attribute has no value and whose
\* second has two
C23_Witness ==
    /\ pc = "formatted"
    /\ HasError
    /\ Len(result.attributes) = 2
    /\ result.attributes[1].values = <<>>
    /\ Len(result.attributes[2].values) = 2
    /\ result.attributes[2].values[1] # result.attributes[2].values[2]
    /\ Parsed.ok

(***************************************************************************)
(* C24: reading the text that format returns gives back every attribute:   *)
(* the string of an attribute added with a single string, and of an        *)
(* attribute added with a list the list itself when it has two or more     *)
(* values, the bare string of its value when it has exactly one, and null  *)
(* when it has none; the strings read are the originals, quotes,           *)
(* backslashes and control characters included.                            *)
(* C24_ListsReadBackAsLists is the claim as made: every list that the list *)
(* overload accepts is read back as that list.                             *)
(***************************************************************************)
\* the values of the attributes object of the text read as p, in order; <<>> when
\* the text does not parse
AttributeValues(p) ==
    IF p.ok /\ p.v.kind = "object" /\ p.v.members # <<>>
    THEN [i \in DOMAIN p.v.members[Len(p.v.members)].value.members |->
             p.v.members[Len(p.v.members)].value.members[i].value]
    ELSE <<>>

AsList(values) == JArray([k \in DOMAIN values |-> JString(values[k])])

AddedWithList(i) == calls[i].call = "addAttribute(vector)"

\* every attribute is read back as it was added: a string or a list
AsAdded(readBack) ==
    /\ Len(readBack) = Len(result.attributes)
    /\ \A i \in DOMAIN result.attributes :
          readBack[i] = IF AddedWithList(i) THEN AsList(result.attributes[i].values)
                        ELSE JString(result.attributes[i].values[1])

\* every attribute is read back by its number of values
AsCounted(readBack) ==
    /\ Len(readBack) = Len(result.attributes)
    /\ \A i \in DOMAIN result.attributes :
          readBack[i] = CASE Len(result.attributes[i].values) = 1 ->
                                JString(result.attributes[i].values[1])
                          [] Len(result.attributes[i].values) = 0 -> JNull
                          [] OTHER -> AsList(result.attributes[i].values)

C24_ListsReadBackAsLists == pc = "formatted" => AsAdded(AttributeValues(Parsed))

C24_RoundTrip == pc = "formatted" => AsCounted(AttributeValues(Parsed))

\* a string with control characters and a list of two values, one with a quote and a
\* backslash, both read back
C24_Witness ==
    /\ pc = "formatted"
    /\ Len(result.attributes) = 2
    /\ ~AddedWithList(1)
    /\ result.attributes[1].values[1] =
           ControlChars[1] \o "\n" \o ControlChars[8] \o ControlChars[31] \o "z"
    /\ AddedWithList(2)
    /\ Len(result.attributes[2].values) = 2
    /\ result.attributes[2].values[1] = "a\"b\\"
    /\ AsCounted(AttributeValues(Parsed))

(***************************************************************************)
(* C25: every attribute of the Result that a collector returned, whichever *)
(* of the three collectors ran, has at least one value: open_files is      *)
(* attached only when a descriptor was listed (a descriptor directory      *)
(* holding "." and ".." alone leaves it out).                              *)
(***************************************************************************)
C25_NoEmptyAttribute ==
    pc \in {"done", "exited"} =>
        \A i \in DOMAIN result.attributes : Len(result.attributes[i].values) >= 1

\* the descriptor directory was opened and listed "." and ".." alone
C25_Witness ==
    /\ pc = "exited"
    /\ result.success
    /\ \E i \in DOMAIN calls : calls[i] = OsCall("opendir", "/proc/42/fd", TRUE)
    /\ "open_files" \notin AttrNames
    /\ json # ""

(***************************************************************************)
(* C26: an invocation that names a query runs the collector of that query, *)
(* once, and main returns 0 when the Result it returned has success true   *)
(* and 1 when it has success false.  An invocation with an argument error  *)
(* (an option without its value, an unknown argument, a protocol other     *)
(* than tcp, udp or both, no query at all) runs no collector and main      *)
(* returns 1.                                                              *)
(***************************************************************************)
\* the command lines with an argument error
ArgErrors ==
    {<<"--process">>, <<"-f">>, <<"--port">>, <<"-P", "22", "--protocol">>,
     <<"--frob">>, <<"--port", "22", "--frob">>, <<"22">>,
     <<"--port", "22", "--protocol", "icmp">>,
     <<"--compact">>, <<"--protocol", "tcp">>}

\* the command lines that name a query, with the query they name
Queries ==
    {[argv |-> <<"-p", "42">>, mode |-> "process", identifier |-> "42"],
     [argv |-> <<"--process", "0", "--compact">>, mode |-> "process", identifier |-> "0"],
     [argv |-> <<"--file", "/etc">>, mode |-> "file", identifier |-> "/etc"],
     [argv |-> <<"-f", "ln", "--compact">>, mode |-> "file", identifier |-> "ln"],
     [argv |-> <<"-f", "">>, mode |-> "file", identifier |-> ""],
     [argv |-> <<"--port", "22", "--protocol", "tcp">>, mode |-> "port", identifier |-> "22"],
     [argv |-> <<"-P", "22", "--compact", "--protocol", "udp">>, mode |-> "port",
      identifier |-> "22"],
     [argv |-> <<"--port", "x">>, mode |-> "port", identifier |-> "x"],
     [argv |-> <<"-p", "42", "--file", "ln">>, mode |-> "file", identifier |-> "ln"]}

IsQuery == \E q \in Queries : q.argv = argv

Query == CHOOSE q \in Queries : q.argv = argv

\* no collector has been entered
NoCollector == pc \in {"main", "exited"} /\ result = MetadataResult /\ calls = <<>>

ExitCodeOfResult ==
    /\ argv \in ArgErrors => NoCollector /\ (pc = "exited" => exitCode = 1)
    /\ (IsQuery /\ pc = "exited") =>
          /\ exitCode = (IF result.success THEN 0 ELSE 1)
          /\ mode = Query.mode
          /\ result.identifier = Query.identifier
    /\ pc # "exited" => exitCode = -1

\* a collector is entered from main alone, for a query and as the collector of that
\* query, and main returns for a query only once its collector has returned
OneCollector ==
    /\ pc' = "start" => (pc = "main" /\ IsQuery /\ mode' = Query.mode
                          /\ identifier' = Chars(Query.identifier))
(* C27: parsePort and parsePid reject every identifier that has a          *)
(* character other than a decimal digit: with white space or a sign in     *)
(* front of the digits (" 7", "+7", "-7") collect returns an error Result. *)
(***************************************************************************)
OnlyDigits(cs) == \A i \in DOMAIN cs : IsDigit(cs[i])

C27_OnlyDigitsAccepted ==
    (mode \in {"port", "process"} /\ pc # "start" /\ ~OnlyDigits(identifier)) => Rejected

(***************************************************************************)
(* C28: every row with enough tokens whose foreign port token, read as an  *)
(* integer, equals the queried port gives a connection, whatever its local *)
(* token is: another port, a port that is not a number, or a token without *)
(* a dot.                                                                  *)
(***************************************************************************)
\* the foreign column of the row line names port p
ForeignNamesPort(line) ==
    /\ Len(Tokenize(line)) >= HandleColumns(Tokenize(line)) + 6
    /\ PortTokenIs(Tokenize(line)[HandleColumns(Tokenize(line)) + 5], port)

\* each of the rows has its connection among cs, in the order of the rows
EachRowKept(rows, cs) ==
    \E f \in IncreasingMaps(Len(rows), Len(cs)) :
        \A k \in 1..Len(rows) :
            /\ cs[f[k]].state = Str(rows[k][HandleColumns(rows[k]) + 6])
            /\ Str(rows[k][HandleColumns(rows[k]) + 5])
                  \in {cs[f[k]].remoteAddress \o "." \o cs[f[k]].remotePort,
                       cs[f[k]].remoteAddress}

TokenizeAll(lines) == [i \in DOMAIN lines |-> Tokenize(lines[i])]

C28_ForeignMatchAlwaysKept ==
    pc = "parsed" =>
        EachRowKept(TokenizeAll(SelectSeq(SplitLines(output), ForeignNamesPort)), connections)

(***************************************************************************)
(* C29: in a successful process Result the attributes exe_name and cmdline *)
(* are the command name and the arguments of a process-table entry whose   *)
(* pid equals the requested pid among the entries the collector's lookups  *)
(* returned, never those of another process that a later lookup returned.  *)
(***************************************************************************)
\* attr holds the command name or the joined arguments of the entry
TakenFrom(attr, entry) ==
    \/ attr.name = "exe_name" /\ attr.values = <<entry.pi_comm>>
    \/ /\ attr.name = "cmdline"
       /\ \E a \in ArgsOf(entry) : a # <<>> /\ attr.values = <<JoinArgs(a[1])>>

\* some lookup returned the requested process and attr is taken from it
FromRequested(attr) ==
    \E k \in DOMAIN lookups :
        /\ lookups[k].count = 1
        /\ lookups[k].entry.pi_pid = pid
        /\ TakenFrom(attr, lookups[k].entry)

C29_OnlyRequestedProcess ==
    (mode = "process" /\ pc = "done" /\ result.success) =>
        \A i \in DOMAIN result.attributes :
            result.attributes[i].name \in {"exe_name", "cmdline"} =>
                FromRequested(result.attributes[i])

(***************************************************************************)
(* C30: parseNetstatOutput processes a line whose first token is a socket  *)
(* handle only if it has at least 7 tokens, and a line without a handle    *)
(* only if it has at least 6.  Every shorter line is skipped: it gives no  *)
(* connection and leaves the parsing of the other lines as it is, so the   *)
(* connections are those of the output without its shorter lines.          *)
(***************************************************************************)
\* the line has a token at every position the parse of a row reads
LongEnough(line) == Len(Tokenize(line)) >= HandleColumns(Tokenize(line)) + 6

\* cs are the connections of a parse of the lines alone
ParsedFrom(lines, cs) ==
    \E protocol \in PassTags :
        \E oracle \in [1..NumLookups(Unlines(lines), port, longBits) -> LsofOutcomes] :
            cs = parseNetstatOutput(Unlines(lines), port, protocol, <<>>, oracle,
                                    longBits).connections

C30_ShortLinesSkipped ==
    pc = "parsed" => ParsedFrom(SelectSeq(SplitLines(output), LongEnough), connections)

\* a row with a socket handle and six tokens came before a row that gave a connection
C30_Witness ==
    /\ pc = "parsed"
    /\ Len(SplitLines(output)) = 2
    /\ HandleColumns(Tokenize(SplitLines(output)[1])) = 1
    /\ Len(Tokenize(SplitLines(output)[1])) = 6
    /\ LongEnough(SplitLines(output)[2])
    /\ Len(connections) = 1

====
